---------------------------- MODULE Spec2Model ----------------------------
(***************************************************************************)
(* A model of the GLaDOS voice-effect pipeline                             *)
(* (src/modules/text_to_speech/vocoder_core.py, class GLaDOSVocoder).      *)
(*                                                                         *)
(* Sample amplitudes are real numbers in the program (numpy float64).      *)
(* They are modelled as fixed-point integers, SCALE units to 1.0: every    *)
(* arithmetic step is the real result rounded to that grid.  Quantities    *)
(* the program turns into integers (sample counts, bin indices, delays)   *)
(* go through int(), where one rounding error of binary64 arithmetic can   *)
(* change the result by a whole unit; those are computed with the F64     *)
(* operators below, which follow IEEE-754 binary64 bit for bit.            *)
(***************************************************************************)
EXTENDS Integers, Sequences, FiniteSets, TLC

VARIABLES
  self,             \* the vocoder object: its six effect parameters
  pc,               \* where the running call stands; "idle" between calls
  caller,           \* who entered _apply_effects_pipeline
  input_file,       \* the file handed to apply_glados_effect
  loaded,           \* the samples read from it, mixed to one channel
  original_sr,      \* the sample rate sf.read reported
  audio_data,       \* apply_glados_effect's buffer, after resampling
  audio,            \* _apply_effects_pipeline's buffer
  processed_audio,  \* what the pipeline returned to apply_glados_effect
  written,          \* the sf.write calls of the current call
  result,           \* what apply_glados_effect returned
  ran,              \* history: the stage functions called, in order
  resampled,        \* history: scipy.signal.resample has run
  call,             \* the last direct call of a stage function
  failed,           \* history: the exceptions raised in the pipeline's stages
  before,           \* history: the pipeline's buffer before the last stage
  speak,            \* the running call of TTSCore.speak: its locals and result
  conversation_history, \* AIAssistantCore.conversation_history
  request           \* the last generate_response: what it sent and returned

vars == <<self, pc, caller, input_file, loaded, original_sr, audio_data, audio,
          processed_audio, written, result, ran, resampled, call, failed,
          before, speak, conversation_history, request>>

\* What the vocoder's own methods leave alone.
outside_vocoder == <<speak, conversation_history, request>>

\* The vocoder and its calls.
vocoder_vars ==
  <<self, pc, caller, input_file, loaded, original_sr, audio_data, audio,
    processed_audio, written, result, ran, resampled, call, failed, before>>

\* The assistant.
assistant_vars == <<conversation_history, request>>

(***************************************************************************)
(* Bounds of the model.                                                    *)
(***************************************************************************)
MaxLen == 3            \* longest mono input, in samples
MaxStereoLen == 1      \* longest two-channel input, in frames
MaxHistory == 4        \* longest conversation history, in messages

(***************************************************************************)
(* Program constants.                                                      *)
(***************************************************************************)
SampleRate == 22050    \* self.sample_rate
CarrierFreq == 120     \* carrier_freq in _add_robotic_resonance

SCALE == 10^4                      \* fixed-point units to 1.0
TargetLevel == (9 * SCALE) \div 10 \* target_level = 0.9

(***************************************************************************)
(* Fixed-point helpers.                                                    *)
(***************************************************************************)
Abs(v) == IF v < 0 THEN -v ELSE v

Sign(v) == IF v < 0 THEN -1 ELSE IF v > 0 THEN 1 ELSE 0

\* a / b for b > 0, rounded to the nearest integer, halves away from zero.
DivR(a, b) ==
  IF a >= 0 THEN (2 * a + b) \div (2 * b) ELSE -((2 * (-a) + b) \div (2 * b))

\* The product of two fixed-point numbers.
MulFx(a, b) == DivR(a * b, SCALE)

Zeros(n) == [i \in 1..n |-> 0]

\* The sample that is not a number (0.0 / 0.0), as a value no sample has.
NaN == -(2^30)

HasNaN(s) == \E i \in DOMAIN s : s[i] = NaN

IsSilent(s) == \A i \in DOMAIN s : s[i] = 0

\* np.max(np.abs(audio)) of a non-empty buffer.
MaxAbs(s) ==
  LET A == {Abs(s[i]) : i \in DOMAIN s}
  IN CHOOSE m \in A : \A v \in A : v <= m

\* The peak of any buffer, 0 for the empty one.
Peak(s) == IF Len(s) = 0 THEN 0 ELSE MaxAbs(s)

(***************************************************************************)
(* Natural numbers of any size, as sequences of base-2^15 digits, least    *)
(* significant first, without leading zero digits; <<>> is 0.  They carry  *)
(* the 53-bit significands of binary64 arithmetic and their 106-bit        *)
(* products.                                                               *)
(***************************************************************************)
BASE == 2^15

\* The binary digits of one base-2^15 digit.
LimbBits == 15

\* Without its leading zero digits.
BNorm(a) ==
  LET used == {i \in 1..Len(a) : a[i] # 0}
  IN IF used = {} THEN <<>>
     ELSE SubSeq(a, 1, CHOOSE i \in used : \A j \in used : j <= i)

\* A natural n < BASE^3.
BFromInt(n) == BNorm(<<n % BASE, (n \div BASE) % BASE, n \div (BASE * BASE)>>)

Limb(a, i) == IF i <= Len(a) THEN a[i] ELSE 0

\* A natural below 2^31.
BToInt(a) == Limb(a, 1) + BASE * Limb(a, 2) + BASE * BASE * Limb(a, 3)

\* -1, 0 or 1 as a < b, a = b or a > b.
BCmp(a, b) ==
  IF Len(a) < Len(b) THEN -1
  ELSE IF Len(a) > Len(b) THEN 1
  ELSE LET diff == {i \in 1..Len(a) : a[i] # b[i]}
       IN IF diff = {} THEN 0
          ELSE LET top == CHOOSE i \in diff : \A j \in diff : j <= i
               IN IF a[top] < b[top] THEN -1 ELSE 1

\* a + b.  Digit i receives a carry when some digit below it overflows and
\* every digit between the two is at least BASE - 1.
BAdd(a, b) ==
  LET n == IF Len(a) > Len(b) THEN Len(a) ELSE Len(b)
      sum == [i \in 1..(n + 1) |-> Limb(a, i) + Limb(b, i)]
      carry == [i \in 1..(n + 1) |->
                  IF \E j \in 1..(i - 1) :
                       /\ sum[j] >= BASE
                       /\ \A k \in (j + 1)..(i - 1) : sum[k] >= BASE - 1
                  THEN 1 ELSE 0]
  IN BNorm([i \in 1..(n + 1) |-> (sum[i] + carry[i]) % BASE])

\* a - b, for a >= b.  Digit i lends when some digit below it falls short
\* and no digit between the two has anything to spare.
BSub(a, b) ==
  LET diff == [i \in 1..Len(a) |-> a[i] - Limb(b, i)]
      borrow == [i \in 1..Len(a) |->
                   IF \E j \in 1..(i - 1) :
                        /\ diff[j] < 0
                        /\ \A k \in (j + 1)..(i - 1) : diff[k] <= 0
                   THEN 1 ELSE 0]
  IN BNorm([i \in 1..Len(a) |-> (diff[i] - borrow[i]) % BASE])

BShlLimbs(a, n) == IF a = <<>> THEN <<>> ELSE [i \in 1..n |-> 0] \o a

\* a * k, for 0 <= k < BASE: the low halves of the digit products plus their
\* high halves one digit up.
BMulSmall(a, k) ==
  BAdd(BNorm([i \in 1..Len(a) |-> (a[i] * k) % BASE]),
       BShlLimbs(BNorm([i \in 1..Len(a) |-> (a[i] * k) \div BASE]), 1))

\* a times the digits lo..hi of b, each in its place.
RECURSIVE BMulRange(_, _, _, _)
BMulRange(a, b, lo, hi) ==
  IF lo = hi THEN BShlLimbs(BMulSmall(a, b[lo]), lo - 1)
  ELSE LET mid == (lo + hi) \div 2
       IN BAdd(BMulRange(a, b, lo, mid), BMulRange(a, b, mid + 1, hi))

BMul(a, b) ==
  IF a = <<>> \/ b = <<>> THEN <<>> ELSE BMulRange(a, b, 1, Len(b))

\* a * 2^n.
BShl(a, n) == BShlLimbs(BMulSmall(a, 2^(n % LimbBits)), n \div LimbBits)

\* floor(a / 2^n): each digit takes its high bits from one digit of a and its
\* low bits from the next.
BShr(a, n) ==
  LET w == n \div LimbBits
      sh == n % LimbBits
  IN BNorm([i \in 1..(Len(a) - w) |->
              Limb(a, i + w) \div 2^sh
              + (Limb(a, i + w + 1) % 2^sh) * 2^(LimbBits - sh)])

\* The number of binary digits of a natural n <= BASE.
BitLenSmall(n) == CHOOSE k \in 0..(LimbBits + 1) : 2^k > n /\ (k = 0 \/ 2^(k - 1) <= n)

\* The number of binary digits of a.
BBitLen(a) ==
  IF a = <<>> THEN 0 ELSE LimbBits * (Len(a) - 1) + BitLenSmall(a[Len(a)])

\* Binary digit i of a, digit 0 the least significant.
BBit(a, i) == (Limb(a, i \div LimbBits + 1) \div 2^(i % LimbBits)) % 2

\* The estimate of a quotient digit from the two leading digits of r and the
\* leading digit of b: at most two too large when the leading digit of b is
\* at least BASE / 2 and r < b * BASE.
QuotEstimate(r, b) ==
  LET n == Len(b)
      lead == Limb(r, n + 1) * BASE + Limb(r, n)
      est == lead \div b[n]
  IN IF est >= BASE THEN BASE - 1 ELSE est

\* The largest digit d with b * d <= r.
QuotDigit(r, b) ==
  LET est == QuotEstimate(r, b)
  IN CHOOSE d \in {est - 2, est - 1, est} :
       /\ d >= 0
       /\ BCmp(BMulSmall(b, d), r) <= 0
       /\ (d = est \/ BCmp(BMulSmall(b, d + 1), r) > 0)

\* Long division, one digit of a at a time from digit i down, with the
\* quotient q and the remainder r of the digits above it: digit i joins the
\* remainder, which is r2 then, and d is the next digit of the quotient.
RECURSIVE BDivModAt(_, _, _, _, _)
BDivDigit(a, b, i, q, r2, d) ==
  IF d = 0 THEN BDivModAt(a, b, i - 1, <<0>> \o q, r2)
  ELSE BDivModAt(a, b, i - 1, <<d>> \o q, BSub(r2, BMulSmall(b, d)))

BDivModAt(a, b, i, q, r) ==
  IF i = 0 THEN [q |-> BNorm(q), r |-> r]
  ELSE BDivDigit(a, b, i, q, BNorm(<<a[i]>> \o r),
                 QuotDigit(BNorm(<<a[i]>> \o r), b))

\* The shift that brings the leading digit of b to BASE / 2 or more.
NormShift(b) == LimbBits - BitLenSmall(b[Len(b)])

BDivUnshift(d, sh) == [q |-> d.q, r |-> BShr(d.r, sh)]

\* The division of an by bn, which are a and b shifted left by sh.  The
\* leading digits of an, one fewer than bn has, are below bn and start the
\* remainder.
BDivShifted(a, an, bn, sh) ==
  IF Len(an) < Len(bn) THEN [q |-> <<>>, r |-> a]
  ELSE BDivUnshift(BDivModAt(an, bn, Len(an) - Len(bn) + 1, <<>>,
                             BNorm(SubSeq(an, Len(an) - Len(bn) + 2, Len(an)))),
                   sh)

\* [q |-> floor(a / b), r |-> a mod b], for b > 0.
BDivMod(a, b) ==
  BDivShifted(a, BShl(a, NormShift(b)), BShl(b, NormShift(b)), NormShift(b))

(***************************************************************************)
(* IEEE-754 binary64 numbers: [neg, m, e] is (-1)^neg * m * 2^e with m a   *)
(* 53-bit significand (2^52 <= m < 2^53), or zero when m = <<>>.  Results  *)
(* are rounded to nearest, ties to even, as the hardware does.  Exponents  *)
(* are unbounded: no value of the model comes near overflow or the         *)
(* subnormal range.                                                        *)
(***************************************************************************)
\* 52 stored significand bits and the implicit leading one.
MantBits == 52 + 1

F64Zero == [neg |-> FALSE, m |-> <<>>, e |-> 0]

\* Rounding to nearest, ties to even: the quotient q of a division by
\* 2 * half goes up when the remainder rem is above half, or is half and
\* either more was cut off before (sticky) or q is odd.
RoundUp(q, rem, half, sticky) ==
  LET c == BCmp(rem, half)
  IN c > 0 \/ (c = 0 /\ (sticky \/ BBit(q, 0) = 1))

\* The number q * 2^e, q of 53 bits or, after rounding up, 2^53.
F64Pack(neg, q, e) ==
  IF BBitLen(q) > MantBits THEN [neg |-> neg, m |-> BShr(q, 1), e |-> e + 1]
  ELSE [neg |-> neg, m |-> q, e |-> e]

\* The rounding of big, which has r bits too many; q is big without them.
F64RoundOff(neg, big, q, r, e, sticky) ==
  F64Pack(neg,
          IF RoundUp(q, BSub(big, BShl(q, r)), BShl(<<1>>, r - 1), sticky)
          THEN BAdd(q, <<1>>) ELSE q,
          e + r)

\* The binary64 nearest to big * 2^e, for a natural big > 0; sticky says that
\* the exact value exceeds big * 2^e by less than 2^e (big has more than 53
\* bits then).
F64Round(neg, big, e, sticky) ==
  IF BBitLen(big) <= MantBits
  THEN [neg |-> neg, m |-> BShl(big, MantBits - BBitLen(big)),
        e |-> e - (MantBits - BBitLen(big))]
  ELSE F64RoundOff(neg, big, BShr(big, BBitLen(big) - MantBits),
                   BBitLen(big) - MantBits, e, sticky)

\* float(n) of an integer n.
F64FromInt(n) ==
  IF n = 0 THEN F64Zero
  ELSE F64Round(n < 0, BFromInt(IF n < 0 THEN -n ELSE n), 0, FALSE)

\* a * b.
F64Mul(a, b) ==
  IF a.m = <<>> \/ b.m = <<>> THEN F64Zero
  ELSE F64Round(a.neg # b.neg, BMul(a.m, b.m), a.e + b.e, FALSE)

\* The rounding of the quotient d.q * 2^e, d.r being what the division left.
F64Quotient(neg, d, e) == F64Round(neg, d.q, e, d.r # <<>>)

\* a / b, for b # 0.
F64Div(a, b) ==
  IF a.m = <<>> THEN F64Zero
  ELSE F64Quotient(a.neg # b.neg, BDivMod(BShl(a.m, MantBits + 3), b.m),
                   a.e - b.e - (MantBits + 3))

\* int(a): the integer part, truncated toward zero.
F64Trunc(a) ==
  IF a.m = <<>> THEN 0
  ELSE (IF a.neg THEN -1 ELSE 1)
       * (IF a.e >= 0 THEN BToInt(BShl(a.m, a.e)) ELSE BToInt(BShr(a.m, -a.e)))

\* -1, 0 or 1 as a < b, a = b or a > b, for a, b >= 0.
F64CmpPos(a, b) ==
  IF a.m = <<>> \/ b.m = <<>>
  THEN (IF a.m = b.m THEN 0 ELSE IF a.m = <<>> THEN -1 ELSE 1)
  ELSE IF a.e # b.e THEN (IF a.e < b.e THEN -1 ELSE 1)
  ELSE BCmp(a.m, b.m)

\* The value a table of computed results holds for key, or else other.
LookUp(table, key, other) ==
  IF key \in DOMAIN table THEN table[key] ELSE other


(***************************************************************************)
(* Parameters and presets.  pitch_shift_semitones is a whole number of     *)
(* semitones, echo_delay_ms is in thousandths of a millisecond, the other  *)
(* four are in fixed point.                                                *)
(***************************************************************************)
Params(pitch, formant, robotic, delay_us, decay, distortion) ==
  [pitch_shift_semitones |-> pitch, formant_shift_ratio |-> formant,
   robotic_intensity |-> robotic, echo_delay_ms |-> delay_us,
   echo_decay |-> decay, distortion_amount |-> distortion]

\* 0.01 in fixed point.
Pct(n) == (n * SCALE) \div 100

\* GLaDOSVocoder.__init__.
DefaultParams == Params(-2, Pct(85), Pct(30), 50 * 1000, Pct(20), Pct(10))

\* A table whose heavy preset has the echo delay of classic.
PresetsHeavyDelayOfClassic ==
  [subtle  |-> Params(-1, Pct(90), Pct(20), 30 * 1000, Pct(15), Pct(5)),
   classic |-> Params(-2, Pct(85), Pct(30), 50 * 1000, Pct(20), Pct(10)),
   heavy   |-> Params(-3, Pct(80), Pct(50), 50 * 1000, Pct(30), Pct(15))]

\* The table of load_preset.
Presets ==
  [subtle  |-> Params(-1, Pct(90), Pct(20), 30 * 1000, Pct(15), Pct(5)),
   classic |-> Params(-2, Pct(85), Pct(30), 50 * 1000, Pct(20), Pct(10)),
   heavy   |-> Params(-3, Pct(80), Pct(50), 70 * 1000, Pct(30), Pct(15))]

\* The names load_preset is called with; the last one is in no table.
PresetNames == {"subtle", "classic", "heavy", "nonexistent"}

\* The arguments create_custom_preset is called with: every effect off, an
\* upward shift with an echo of one sample, and nothing but a distortion of
\* amount 1.0.
CustomParams ==
  { Params(0, SCALE, 0, 0, 0, 0),
    Params(3, Pct(120), Pct(40), 50, Pct(50), Pct(20)),
    Params(0, SCALE, 0, 0, 0, SCALE) }

\* Every value the parameters take.
AllParams ==
  {DefaultParams} \cup {Presets[n] : n \in DOMAIN Presets} \cup CustomParams

(***************************************************************************)
(* Input files.                                                            *)
(***************************************************************************)
\* The sample values of the inputs: silence, full scale and minus a half.
Samples == {0, SCALE, -(SCALE \div 2)}

\* The sample rates of the inputs: the target rate, its double, its half.
Rates == {SampleRate, 2 * SampleRate, SampleRate \div 2}

\* The buffers of at most n samples.
Buffers(n) == UNION {[1..k -> Samples] : k \in 0..n}

\* The sounds of at most n frames, a frame holding a sample for each channel.
Frames(channels, n) == UNION {[1..k -> [1..channels -> Samples]] : k \in 0..n}

\* A path is the sequence of its characters.  "s.wav":
FilePath == <<"s", ".", "w", "a", "v">>

\* "s.mp3" (what _gtts_synthesize hands on when its conversion fails), "s",
\* ".wav", "d.x/s" and "s.tar.gz".
OtherPaths ==
  { <<"s", ".", "m", "p", "3">>,
    <<"s">>,
    <<".", "w", "a", "v">>,
    <<"d", ".", "x", "/", "s">>,
    <<"s", ".", "t", "a", "r", ".", "g", "z">> }

NoFile ==
  [path |-> FilePath, exists |-> FALSE, size |-> 0, channels |-> 1,
   frames |-> <<>>, samplerate |-> SampleRate]

\* A file that is missing, one of no bytes, and the sound files of one and
\* two channels (size counts the header and two bytes a sample).
InputFiles ==
  {NoFile, [NoFile EXCEPT !.exists = TRUE]}
  \cup {[path |-> FilePath, exists |-> TRUE, size |-> 44 + 2 * Len(b),
         channels |-> 1, frames |-> b, samplerate |-> r]
          : b \in Frames(1, MaxLen), r \in Rates}
  \cup {[path |-> FilePath, exists |-> TRUE, size |-> 44 + 4 * Len(b),
         channels |-> 2, frames |-> b, samplerate |-> r]
          : b \in Frames(2, MaxStereoLen), r \in Rates}
  \cup {[path |-> q, exists |-> TRUE, size |-> 46, channels |-> 1,
         frames |-> <<<<SCALE>>>>, samplerate |-> SampleRate]
          : q \in OtherPaths}


(***************************************************************************)
(* Elementary functions on the fixed-point grid.                           *)
(***************************************************************************)
RECURSIVE GCD(_, _)
GCD(a, b) == IF b = 0 THEN a ELSE GCD(b, a % b)

RECURSIVE SumSeq(_)
SumSeq(s) == IF s = <<>> THEN 0 ELSE s[1] + SumSeq(Tail(s))

\* pi, from the approximation 355/113.
PiFx == DivR(355 * SCALE, 113)

\* sin(2 pi p/q) for 0 <= p/q <= 1/4, p/q in lowest terms: the Taylor series
\* up to the ninth power, exact at both ends of the range.
SinQuarter(p, q) ==
  IF p = 0 THEN 0
  ELSE IF 4 * p = q THEN SCALE
  ELSE LET ang == DivR(2 * PiFx * p, q)
           sq == MulFx(ang, ang)
           t4 == SCALE - DivR(sq, 72)
           t3 == SCALE - MulFx(DivR(sq, 42), t4)
           t2 == SCALE - MulFx(DivR(sq, 20), t3)
           t1 == SCALE - MulFx(DivR(sq, 6), t2)
       IN MulFx(ang, t1)

SinReduced(p, q) ==
  IF 4 * p <= q THEN SinQuarter(p, q)
  ELSE IF 2 * p <= q
       THEN LET g == GCD(q - 2 * p, 2 * q)
            IN SinQuarter((q - 2 * p) \div g, (2 * q) \div g)
  ELSE IF 4 * p <= 3 * q
       THEN LET g == GCD(2 * p - q, 2 * q)
            IN -SinQuarter((2 * p - q) \div g, (2 * q) \div g)
  ELSE -SinQuarter(q - p, q)

\* np.sin(2 pi p/q), for integers p and q > 0.
SinTurn(p, q) ==
  LET g == GCD(p % q, q)
  IN SinReduced((p % q) \div g, q \div g)

\* np.cos(2 pi p/q).
CosTurn(p, q) == SinTurn(4 * p + q, 4 * q)

\* exp(-v) for 0 <= v <= 1, by its Taylor series up to the fifth power.
ExpNegSmall(v) ==
  LET t5 == SCALE - DivR(v, 5)
      t4 == SCALE - MulFx(DivR(v, 4), t5)
      t3 == SCALE - MulFx(DivR(v, 3), t4)
      t2 == SCALE - MulFx(DivR(v, 2), t3)
  IN SCALE - MulFx(v, t2)

\* np.exp(-v) for v >= 0: exp(-v) is the square of exp(-v/2).
RECURSIVE ExpNeg(_)
ExpNeg(v) ==
  IF v <= SCALE \div 4 THEN ExpNegSmall(v)
  ELSE LET h == ExpNeg(DivR(v, 2)) IN MulFx(h, h)

\* 2^(r/12) for r = 0..11.
TwelfthPowers ==
  <<10000, 10595, 11225, 11892, 12599, 13348,
    14142, 14983, 15874, 16818, 17818, 18877>>

\* pitch_ratio = 2 ** (semitones / 12.0), for a whole number of semitones.
PitchRatio(semitones) ==
  LET oct == semitones \div 12
      base == DivR(TwelfthPowers[(semitones % 12) + 1] * SCALE, 10000)
  IN IF oct >= 0 THEN base * 2^oct ELSE DivR(base, 2^(-oct))


(***************************************************************************)
(* The arguments of the direct calls of the stage functions.               *)
(***************************************************************************)
MaxCallLen == 11       \* longest buffer handed to _resample_audio directly
LongClickLen == 23     \* one longer buffer handed to _formant_shift

\* The shorter buffers, and constant buffers for the longer lengths.
CallBuffers ==
  Buffers(MaxLen)
  \cup {[i \in 1..n |-> SCALE] : n \in (MaxLen + 1)..MaxCallLen}

\* The shorter buffers, and for the longer lengths a click: two samples
\* and silence after them.
SpectralBuffers ==
  Buffers(MaxLen)
  \cup {[i \in 1..n |-> IF i = 1 THEN SCALE
                        ELSE IF i = 2 THEN -(SCALE \div 2) ELSE 0]
          : n \in ((MaxLen + 1)..MaxCallLen) \cup {LongClickLen}}

\* The rates above and one that is no divisor or multiple of them.
CallRates == Rates \cup {16170}

CallLevels == {TargetLevel, SCALE \div 2}

CallSemitones == {0, -2, 3, 12}

CallRatios == {SCALE, Pct(85), Pct(90), Pct(120)}

CallAmounts == {0, Pct(30), SCALE}

\* Delays in thousandths of a millisecond: none, 0.2205, 1.1025 and 1.764
\* samples, and the delays of the presets subtle and classic.
CallDelays == {0, 10, 50, 80, 30 * 1000, 50 * 1000}

(***************************************************************************)
(* The effect stages.  A buffer is a sequence of fixed-point samples.      *)
(***************************************************************************)
\* A normalization that scales the peak to full scale, whatever the target.
NormalizeToFullScale(buf, target_level) ==
  IF Len(buf) = 0 \/ MaxAbs(buf) = 0 THEN buf
  ELSE [i \in 1..Len(buf) |-> DivR(buf[i] * SCALE, MaxAbs(buf))]

\* _normalize_audio(audio, target_level).  The maximum of a buffer that holds
\* a NaN is NaN, and NaN > 0 is false.
NormalizeAudio(buf, target_level) ==
  IF Len(buf) = 0 \/ HasNaN(buf) THEN buf
  ELSE LET max_val == MaxAbs(buf)
       IN IF max_val > 0
          THEN [i \in 1..Len(buf) |-> DivR(buf[i] * target_level, max_val)]
          ELSE buf

\* The greatest sample of a 16-bit file, in steps of 2^-15: sf.read hands
\* out the binary64 value k / 32768.
PcmPeaks == {1, 5, 7, 2^14, 2^15 - 1}

PcmSample(k) == F64Div(F64FromInt(k), F64FromInt(2^15))

\* A level given in fixed point, as the binary64 nearest to it.
F64Level(level) == F64Div(F64FromInt(level), F64FromInt(SCALE))

\* Line 182 for the greatest sample, in binary64: max_val times the rounded
\* quotient target_level / max_val.
NormalizedPeak(max_val, target_level) ==
  F64Mul(max_val, F64Div(target_level, max_val))

\* NormalizedPeak, computed once for the peaks and levels that occur.
NormalizedPeakTable ==
  [k \in PcmPeaks \X CallLevels |->
     NormalizedPeak(PcmSample(k[1]), F64Level(k[2]))] @@ <<>>

\* The levels as binary64, computed once.
F64LevelTable == [l \in CallLevels |-> F64Level(l)] @@ <<>>

NormalizedPeakOf(k, target_level) ==
  LookUp(NormalizedPeakTable, <<k, target_level>>,
         NormalizedPeak(PcmSample(k), F64Level(target_level)))

F64LevelOf(level) == LookUp(F64LevelTable, level, F64Level(level))

\* The binary64 next above a > 0 that is no power of two minus one step.
F64NextUp(a) == [a EXCEPT !.m = BAdd(a.m, <<1>>)]

\* np.interp(pos, np.arange(len(buf)), buf) at one position pos >= 0, given in
\* fixed point: linear between neighbours, the last sample beyond the end.
Interp(buf, pos) ==
  LET lo == pos \div SCALE
  IN IF lo >= Len(buf) - 1 THEN buf[Len(buf)]
     ELSE buf[lo + 1] + MulFx(pos % SCALE, buf[lo + 2] - buf[lo + 1])

\* len(np.arange(0, n, pitch_ratio)): the positions k * pitch_ratio below n.
IndexCount(n, pitch_ratio) == (n * SCALE + pitch_ratio - 1) \div pitch_ratio

\* A pitch shift that pads its result to one sample at least.
PitchShiftPadsEmpty(buf, semitones) ==
  IF Len(buf) = 0 THEN <<0>>
  ELSE IF semitones = 0 THEN buf
  ELSE LET pitch_ratio == PitchRatio(semitones)
           count == IndexCount(Len(buf), pitch_ratio)
       IN [k \in 1..Len(buf) |->
             IF k <= count THEN Interp(buf, (k - 1) * pitch_ratio) ELSE 0]

\* A pitch shift that returns the interpolated samples as they are, neither
\* padded nor trimmed.
PitchShiftNoPad(buf, semitones) ==
  IF semitones = 0 \/ Len(buf) = 0 THEN buf
  ELSE [k \in 1..IndexCount(Len(buf), PitchRatio(semitones)) |->
          Interp(buf, (k - 1) * PitchRatio(semitones))]

\* _pitch_shift(audio, semitones).
PitchShift(buf, semitones) ==
  IF semitones = 0 \/ Len(buf) = 0 THEN buf
  ELSE LET pitch_ratio == PitchRatio(semitones)
           count == IndexCount(Len(buf), pitch_ratio)
       IN IF count = 0 THEN buf
          ELSE [k \in 1..Len(buf) |->
                  IF k <= count THEN Interp(buf, (k - 1) * pitch_ratio)
                  ELSE 0]

\* _add_robotic_resonance(audio, intensity): sample k (from 0) of the carrier
\* is taken at t = k * (n / sample_rate) / (n - 1), np.linspace's grid.
Carrier(k, n) ==
  IF n = 1 THEN 0
  ELSE SinTurn(CarrierFreq * k * n, SampleRate * (n - 1))

\* A resonance that adds the carrier to the signal instead of modulating
\* the signal with it.
AddCarrier(buf, intensity) ==
  IF intensity = 0 \/ Len(buf) = 0 THEN buf
  ELSE [i \in 1..Len(buf) |->
          buf[i] + MulFx(intensity, Carrier(i - 1, Len(buf)))]

AddRoboticResonance(buf, intensity) ==
  IF intensity = 0 \/ Len(buf) = 0 THEN buf
  ELSE [i \in 1..Len(buf) |->
          LET modulated ==
                MulFx(buf[i], SCALE + MulFx(intensity, Carrier(i - 1, Len(buf))))
          IN MulFx(SCALE - intensity, buf[i]) + MulFx(intensity, modulated)]

\* Lines 280-284 for amount = 1.0: threshold is 0.0 and numpy divides by
\* it with a warning, not an exception.  -abs(x) / 0.0 is -inf for x # 0,
\* whose exponential is 0, and the sample becomes sign(x); it is NaN for
\* x = 0, and the sample becomes NaN.
DistortionAtZeroThreshold(buf) ==
  [i \in 1..Len(buf) |-> IF buf[i] = 0 THEN NaN ELSE Sign(buf[i]) * SCALE]

\* _apply_distortion(audio, amount), for 0 <= amount <= 1.
ApplyDistortion(buf, amount) ==
  IF amount = 0 \/ Len(buf) = 0 THEN buf
  ELSE IF amount = SCALE THEN DistortionAtZeroThreshold(buf)
  ELSE LET threshold == SCALE - amount
       IN [i \in 1..Len(buf) |->
             LET distorted ==
                   Sign(buf[i])
                     * (SCALE - ExpNeg(DivR(Abs(buf[i]) * SCALE, threshold)))
             IN MulFx(SCALE - amount, buf[i]) + MulFx(amount, distorted)]

\* delay_samples = int(delay_ms * self.sample_rate / 1000), in binary64; the
\* delay is given in thousandths of a millisecond.
DelaySamples(delay_us) ==
  F64Trunc(F64Div(F64Mul(F64Div(F64FromInt(delay_us), F64FromInt(1000)),
                         F64FromInt(SampleRate)),
                  F64FromInt(1000)))

\* DelaySamples, computed once for the delays that occur.
DelaySamplesTable ==
  [d \in {p.echo_delay_ms : p \in AllParams} \cup CallDelays |->
     DelaySamples(d)] @@ <<>>

DelaySamplesOf(delay_us) ==
  LookUp(DelaySamplesTable, delay_us, DelaySamples(delay_us))

\* An echo that shortens a delay too long for the buffer to the longest
\* one that fits.
EchoClamped(buf, delay_samples, decay) ==
  IF delay_samples <= 0 \/ Len(buf) < 2 THEN buf
  ELSE [i \in 1..Len(buf) |->
          buf[i] + (IF i > delay_samples /\ delay_samples < Len(buf)
                    THEN MulFx(buf[i - delay_samples], decay)
                    ELSE IF delay_samples >= Len(buf) /\ i = Len(buf)
                    THEN MulFx(buf[1], decay)
                    ELSE 0)]

\* An echo that lets the delayed copy run on past the end of the buffer.
EchoWithTail(buf, delay_samples, decay) ==
  IF delay_samples >= Len(buf) \/ delay_samples <= 0 THEN buf
  ELSE [i \in 1..(Len(buf) + delay_samples) |->
          (IF i <= Len(buf) THEN buf[i] ELSE 0)
          + (IF i > delay_samples
             THEN MulFx(buf[i - delay_samples], decay)
             ELSE 0)]

\* Lines 299-307: the buffer plus its copy delay_samples later, scaled.
EchoAt(buf, delay_samples, decay) ==
  IF delay_samples >= Len(buf) \/ delay_samples <= 0 THEN buf
  ELSE [i \in 1..Len(buf) |->
          buf[i] + (IF i > delay_samples
                    THEN MulFx(buf[i - delay_samples], decay)
                    ELSE 0)]

\* _add_echo(audio, delay_ms, decay).
AddEcho(buf, delay_us, decay) ==
  IF delay_us = 0 \/ decay = 0 \/ Len(buf) = 0 THEN buf
  ELSE EchoAt(buf, DelaySamplesOf(delay_us), decay)

(***************************************************************************)
(* Spectra.  A complex number is a pair <<re, im>>; a spectrum of n bins   *)
(* is a sequence whose element k + 1 is bin k.                             *)
(***************************************************************************)
CZero == <<0, 0>>

\* np.fft.fft(audio): bin k is the sum of audio[j] * exp(-2 pi i j k / n).
FFT(buf) ==
  LET n == Len(buf)
  IN [k \in 1..n |->
        << SumSeq([j \in 1..n |->
                     MulFx(buf[j], CosTurn((j - 1) * (k - 1), n))]),
           -SumSeq([j \in 1..n |->
                     MulFx(buf[j], SinTurn((j - 1) * (k - 1), n))]) >>]

\* np.real(np.fft.ifft(spectrum)).
RealIFFT(spec) ==
  LET n == Len(spec)
  IN [j \in 1..n |->
        DivR(SumSeq([k \in 1..n |->
                       MulFx(spec[k][1], CosTurn((j - 1) * (k - 1), n))
                       - MulFx(spec[k][2], SinTurn((j - 1) * (k - 1), n))]),
             n)]

\* 1/self.sample_rate, in binary64.
SamplePeriod == F64Div(F64FromInt(1), F64FromInt(SampleRate))

\* freqs[i] of np.fft.fftfreq(n, 1/self.sample_rate) for 0 <= i < n // 2, in
\* binary64: i * (1.0 / (n * d)) with d the sample period.
FftFreq(i, n) ==
  F64Mul(F64FromInt(i),
         F64Div(F64FromInt(1), F64Mul(F64FromInt(n), SamplePeriod)))

\* The longest buffer _formant_shift sees: a file at half the vocoder's rate
\* doubles in length.
MaxBins == IF 2 * MaxLen > MaxCallLen THEN 2 * MaxLen ELSE MaxCallLen

\* The bins <<i, n>> of the first halves of the spectra up to that length.
BinKeys ==
  UNION {{<<i, n>> : i \in 0..(n \div 2 - 1)}
           : n \in (1..MaxBins) \cup {LongClickLen}}

\* FftFreq, computed once for those bins.
FreqsTable == [k \in BinKeys |-> FftFreq(k[1], k[2])] @@ <<>>

Freqs(i, n) == LookUp(FreqsTable, <<i, n>>, FftFreq(i, n))

\* new_idx = int(freq * shift_ratio * len(audio) / self.sample_rate) of bin
\* i, in binary64; shift_ratio is given in fixed point.
NewIdx(i, n, shift_ratio) ==
  F64Trunc(F64Div(F64Mul(F64Mul(Freqs(i, n),
                                F64Div(F64FromInt(shift_ratio),
                                       F64FromInt(SCALE))),
                         F64FromInt(n)),
                  F64FromInt(SampleRate)))

\* NewIdx, computed once for those bins and the ratios that occur.
NewIdxTable ==
  [k \in BinKeys \X ({p.formant_shift_ratio : p \in AllParams} \cup CallRatios)
     |-> NewIdx(k[1][1], k[1][2], k[2])] @@ <<>>

NewIdxOf(i, n, shift_ratio) ==
  LookUp(NewIdxTable, <<<<i, n>>, shift_ratio>>, NewIdx(i, n, shift_ratio))

\* The loop of _formant_shift from bin i on: every positive-frequency bin
\* below n // 2 is copied to its new index, and the bin counted i + 1 from
\* the end to the place counted new_idx + 1 from the end.
RECURSIVE ShiftBins(_, _, _, _)
ShiftBin(fft_data, shifted_fft, i, shift_ratio, new_idx) ==
  IF 0 <= new_idx /\ new_idx < Len(fft_data) \div 2
  THEN ShiftBins(fft_data,
                 [[shifted_fft EXCEPT ![new_idx + 1] = fft_data[i + 1]]
                    EXCEPT ![Len(fft_data) - new_idx] = fft_data[Len(fft_data) - i]],
                 i + 1, shift_ratio)
  ELSE ShiftBins(fft_data, shifted_fft, i + 1, shift_ratio)

ShiftBins(fft_data, shifted_fft, i, shift_ratio) ==
  IF i >= Len(fft_data) \div 2 THEN shifted_fft
  ELSE IF F64CmpPos(Freqs(i, Len(fft_data)), F64Zero) <= 0
       THEN ShiftBins(fft_data, shifted_fft, i + 1, shift_ratio)
  ELSE ShiftBin(fft_data, shifted_fft, i, shift_ratio,
                NewIdxOf(i, Len(fft_data), shift_ratio))

\* A formant shift that goes through the spectrum whatever the ratio.
FormantShiftAlways(buf, shift_ratio) ==
  IF Len(buf) = 0 THEN buf
  ELSE RealIFFT(ShiftBins(<<>> \o FFT(buf), [k \in 1..Len(buf) |-> CZero],
                          0, shift_ratio))

\* shifted_fft after the loop of lines 235-241, for a buffer with samples.
ShiftedSpectrum(buf, shift_ratio) ==
  ShiftBins(<<>> \o FFT(buf), [k \in 1..Len(buf) |-> CZero], 0, shift_ratio)

\* _formant_shift(audio, shift_ratio).
FormantShift(buf, shift_ratio) ==
  IF shift_ratio = SCALE \/ Len(buf) = 0 THEN buf
  ELSE RealIFFT(ShiftedSpectrum(buf, shift_ratio))


(***************************************************************************)
(* Resampling.                                                             *)
(***************************************************************************)
\* new_length = int(len(audio) * (target_sr / original_sr)), in binary64.
NewLength(n, orig_sr, target_sr) ==
  F64Trunc(F64Mul(F64FromInt(n),
                  F64Div(F64FromInt(target_sr), F64FromInt(orig_sr))))

\* NewLength, computed once for the lengths and rates that occur.
NewLengthTable ==
  [k \in {<<n, r, t>> \in (0..MaxCallLen) \X CallRates \X CallRates :
            t \in {SampleRate, r}}
     |-> NewLength(k[1], k[2], k[3])] @@ <<>>

NewLengthOf(n, orig_sr, target_sr) ==
  LookUp(NewLengthTable, <<n, orig_sr, target_sr>>,
         NewLength(n, orig_sr, target_sr))

\* Bin k of the spectrum scipy.signal.resample hands to the inverse
\* transform: the bins of the input up to the Nyquist bin of the shorter of
\* both lengths, that bin doubled when shortening and halved when
\* lengthening, zero above.
ResampledBin(fft_data, k, num) ==
  LET nx == Len(fft_data)
      m == IF num < nx THEN num ELSE nx
  IN IF k > m \div 2 THEN CZero
     ELSE IF m % 2 = 0 /\ k = m \div 2 /\ num < nx
          THEN <<2 * fft_data[k + 1][1], 2 * fft_data[k + 1][2]>>
     ELSE IF m % 2 = 0 /\ k = m \div 2 /\ nx < num
          THEN <<DivR(fft_data[k + 1][1], 2), DivR(fft_data[k + 1][2], 2)>>
     ELSE fft_data[k + 1]

\* scipy.signal.resample(audio, num) for num > 0: the Fourier method.  The
\* result has exactly num samples: the inverse real transform of the bins
\* above, scaled by num / len(audio).
ScipyResample(buf, num) ==
  LET fft_data == <<>> \o FFT(buf)
      bins == <<>> \o [k \in 1..(num \div 2 + 1) |->
                         ResampledBin(fft_data, k - 1, num)]
  IN [j \in 1..num |->
        DivR(bins[1][1]
             + SumSeq([k \in 1..((num - 1) \div 2) |->
                         2 * (MulFx(bins[k + 1][1], CosTurn((j - 1) * k, num))
                              - MulFx(bins[k + 1][2], SinTurn((j - 1) * k, num)))])
             + (IF num % 2 = 0
                THEN bins[num \div 2 + 1][1] * (IF j % 2 = 1 THEN 1 ELSE -1)
                ELSE 0),
             Len(buf))]

\* A resampling without the test of the new length: no samples are left
\* when the new length is zero.
ResampleToAnyLength(buf, new_length) ==
  IF new_length <= 0 THEN <<>> ELSE ScipyResample(buf, new_length)

\* Lines 122-127: the buffer itself when no sample would be left.
ResampleTo(buf, new_length) ==
  IF new_length <= 0 THEN buf ELSE ScipyResample(buf, new_length)

\* A resampling that does not look at the rates before it computes.
ResampleAlways(buf, orig_sr, target_sr) ==
  IF Len(buf) = 0 THEN buf
  ELSE ResampleTo(buf, NewLengthOf(Len(buf), orig_sr, target_sr))

\* _resample_audio(audio, original_sr, target_sr).
ResampleAudio(buf, orig_sr, target_sr) ==
  IF orig_sr = target_sr THEN buf
  ELSE IF Len(buf) = 0 THEN buf
  ELSE ResampleTo(buf, NewLengthOf(Len(buf), orig_sr, target_sr))

\* _resample_audio gets as far as scipy.signal.resample (line 127).
ReachesResample(buf, orig_sr, target_sr) ==
  /\ orig_sr # target_sr
  /\ Len(buf) # 0
  /\ NewLengthOf(Len(buf), orig_sr, target_sr) > 0

\* np.mean(audio_data, axis=1): one sample per frame.
MonoMix(frames) ==
  [i \in 1..Len(frames) |-> DivR(SumSeq(frames[i]), Len(frames[i]))]


(***************************************************************************)
(* The state after GLaDOSVocoder() and before any call.                    *)
(***************************************************************************)
NoCall == [fn |-> "none", buf |-> <<>>, args |-> <<>>, returned |-> FALSE,
           ret |-> <<>>]

\* A call that has not returned; value is <<>> for None, else <<the path>>.
Pending == [returned |-> FALSE, value |-> <<>>]

ReturnNone == [returned |-> TRUE, value |-> <<>>]

\* No call of TTSCore.speak has been made.
NoSpeak ==
  [pc |-> "idle", use_vocoder |-> FALSE, synthesized |-> NoFile,
   audio_file |-> <<>>, vocoder |-> "none", playback |-> "none",
   played |-> <<>>, ret |-> <<>>]

\* os.getenv("SYSTEM_PROMPT", ...), line 51 of ai_assistant_core.py.
SystemPrompt == "You are a helpful AI assistant."

\* The last call of the assistant was no generate_response.
NoRequest == [messages |-> <<>>, outcome |-> "none", content |-> ""]

Init ==
  /\ self = DefaultParams
  /\ pc = "idle"
  /\ caller = "none"
  /\ input_file = NoFile
  /\ loaded = <<>>
  /\ original_sr = SampleRate
  /\ audio_data = <<>>
  /\ audio = <<>>
  /\ processed_audio = <<>>
  /\ written = <<>>
  /\ result = Pending
  /\ ran = <<>>
  /\ resampled = FALSE
  /\ call = NoCall
  /\ failed = <<>>
  /\ before = <<>>
  /\ speak = NoSpeak
  /\ conversation_history = <<[role |-> "system", content |-> SystemPrompt]>>
  /\ request = NoRequest

(***************************************************************************)
(* apply_glados_effect(input_file), in four steps: loading, resampling,    *)
(* the pipeline (its stages are steps of their own) and writing.           *)
(***************************************************************************)
\* A check of the source that leaves out the samples read.
MissingOrNoBytes(f) == ~f.exists \/ f.size = 0

\* Lines 53-67: there is no source audio in file f: it is missing (53), has
\* no bytes (57) or sf.read found no samples in it (65).
SourceMissing(f) == ~f.exists \/ f.size = 0 \/ Len(f.frames) = 0

\* Lines 53-76: the checks of the file, sf.read and the mix to one channel.
\* The step returns None for a file that is missing, has no bytes or holds
\* no samples.
ApplyLoad(f) ==
  /\ pc = "idle"
  /\ input_file' = f
  /\ caller' = "apply"
  /\ audio' = <<>>
  /\ processed_audio' = <<>>
  /\ written' = <<>>
  /\ ran' = <<>>
  /\ resampled' = FALSE
  /\ call' = NoCall
  /\ failed' = <<>>
  /\ before' = <<>>
  /\ IF SourceMissing(f)
     THEN /\ result' = ReturnNone
          /\ loaded' = <<>>
          /\ audio_data' = <<>>
          /\ original_sr' = SampleRate
          /\ pc' = "idle"
     ELSE /\ result' = Pending
          /\ loaded' = IF f.channels > 1 THEN <<>> \o MonoMix(f.frames)
                      ELSE <<>> \o [i \in 1..Len(f.frames) |-> f.frames[i][1]]
          /\ audio_data' = loaded'
          /\ original_sr' = f.samplerate
          /\ pc' = "resample"
  /\ UNCHANGED self
  /\ UNCHANGED outside_vocoder

\* A resampling step that acts only on files of a higher rate.
ApplyResampleDownOnly ==
  /\ pc = "resample"
  /\ IF original_sr > SampleRate
     THEN /\ audio_data' = <<>> \o ResampleAudio(audio_data, original_sr, SampleRate)
          /\ ran' = Append(ran, "_resample_audio")
          /\ resampled' = ReachesResample(audio_data, original_sr, SampleRate)
     ELSE UNCHANGED <<audio_data, ran, resampled>>
  /\ IF Len(audio_data') = 0
     THEN result' = ReturnNone /\ pc' = "idle"
     ELSE result' = result /\ pc' = "pipeline"
  /\ UNCHANGED <<failed, before>>
  /\ UNCHANGED outside_vocoder
  /\ UNCHANGED <<self, caller, input_file, loaded, original_sr, audio,
                 processed_audio, written, call>>

\* Lines 79-85: resample when the file's rate is not the vocoder's.
ApplyResample ==
  /\ pc = "resample"
  /\ IF original_sr # SampleRate
     THEN /\ audio_data' = <<>> \o ResampleAudio(audio_data, original_sr, SampleRate)
          /\ ran' = Append(ran, "_resample_audio")
          /\ resampled' = ReachesResample(audio_data, original_sr, SampleRate)
     ELSE UNCHANGED <<audio_data, ran, resampled>>
  /\ IF Len(audio_data') = 0
     THEN result' = ReturnNone /\ pc' = "idle"
     ELSE result' = result /\ pc' = "pipeline"
  /\ UNCHANGED <<failed, before>>
  /\ UNCHANGED outside_vocoder
  /\ UNCHANGED <<self, caller, input_file, loaded, original_sr, audio,
                 processed_audio, written, call>>


(***************************************************************************)
(* _apply_effects_pipeline: one step a stage.                              *)
(***************************************************************************)
\* The pipeline returns buffer out to who entered it: to apply_glados_effect,
\* or to the direct call recorded as rec.
PipelineReturn(who, rec, out) ==
  IF who = "apply"
  THEN /\ processed_audio' = out
       /\ pc' = "write"
       /\ call' = rec
  ELSE /\ call' = [rec EXCEPT !.returned = TRUE, !.ret = out]
       /\ pc' = "idle"
       /\ processed_audio' = processed_audio

\* Lines 131-133: the pipeline starts on buffer buf, and returns it at once
\* when it is empty.
PipelineEnter(who, rec, buf) ==
  /\ audio' = buf
  /\ IF Len(buf) = 0
     THEN PipelineReturn(who, rec, buf)
     ELSE pc' = "normalize_in" /\ call' = rec /\ UNCHANGED processed_audio

\* Line 88: apply_glados_effect enters the pipeline with its buffer.
ApplyPipeline ==
  /\ pc = "pipeline"
  /\ PipelineEnter("apply", call, audio_data)
  /\ UNCHANGED <<failed, before>>
  /\ UNCHANGED outside_vocoder
  /\ UNCHANGED <<self, caller, input_file, loaded, original_sr, audio_data,
                 written, result, ran, resampled>>

\* One stage: the pipeline's buffer becomes out, and the pipeline goes on to
\* the stage at next unless the buffer is empty now.
Stage(here, name, out, next) ==
  /\ pc = here
  /\ audio' = <<>> \o out
  /\ ran' = Append(ran, name)
  /\ before' = audio
  /\ IF Len(audio') = 0 \/ next = "return"
     THEN PipelineReturn(caller, call, audio')
     ELSE pc' = next /\ UNCHANGED <<processed_audio, call>>
  /\ UNCHANGED failed
  /\ UNCHANGED outside_vocoder
  /\ UNCHANGED <<self, caller, input_file, loaded, original_sr, audio_data,
                 written, result, resampled>>

\* Line 137.
StageNormalizeIn ==
  Stage("normalize_in", "_normalize_audio",
        NormalizeAudio(audio, TargetLevel), "pitch")

\* The pitch stage of a pipeline that leaves out the formant stage.
StagePitchSkipsFormant ==
  Stage("pitch", "_pitch_shift",
        PitchShift(audio, self.pitch_shift_semitones), "resonance")

\* Line 142.
StagePitch ==
  Stage("pitch", "_pitch_shift",
        PitchShift(audio, self.pitch_shift_semitones), "formant")

\* Line 147.
StageFormant ==
  Stage("formant", "_formant_shift",
        FormantShift(audio, self.formant_shift_ratio), "resonance")

\* Line 152.
StageResonance ==
  Stage("resonance", "_add_robotic_resonance",
        AddRoboticResonance(audio, self.robotic_intensity), "distortion")

\* Line 157.
StageDistortion ==
  Stage("distortion", "_apply_distortion",
        ApplyDistortion(audio, self.distortion_amount), "echo")

\* Line 162.
StageEcho ==
  Stage("echo", "_add_echo",
        AddEcho(audio, self.echo_delay_ms, self.echo_decay), "normalize_out")

\* Line 167, and the return of line 169.
StageNormalizeOut ==
  Stage("normalize_out", "_normalize_audio",
        NormalizeAudio(audio, TargetLevel), "return")

\* The place of the last character c of path, 0 when it has none:
\* path.rfind(c) + 1.
RFind(path, c) ==
  IF \E i \in DOMAIN path : path[i] = c
  THEN CHOOSE i \in DOMAIN path :
         path[i] = c /\ \A j \in DOMAIN path : path[j] = c => j <= i
  ELSE 0

\* os.path.splitext(path): the extension starts at the last dot, when that
\* dot comes after the last separator and after a character of the file
\* name that is no dot; there is none otherwise.
SplitExt(path) ==
  LET sepIndex == RFind(path, "/")
      dotIndex == RFind(path, ".")
  IN IF /\ dotIndex > sepIndex
        /\ \E k \in (sepIndex + 1)..(dotIndex - 1) : path[k] # "."
     THEN <<SubSeq(path, 1, dotIndex - 1), SubSeq(path, dotIndex, Len(path))>>
     ELSE <<path, <<>>>>

\* "_glados" and ".wav".
GladosSuffix == <<"_", "g", "l", "a", "d", "o", "s">>

WavExt == <<".", "w", "a", "v">>

\* An output name that keeps the extension of the input.
OutputFileKeepsExt(path) ==
  SplitExt(path)[1] \o GladosSuffix \o SplitExt(path)[2]

\* Lines 97-98: f"{os.path.splitext(input_file)[0]}_glados.wav"
OutputFile(path) == SplitExt(path)[1] \o GladosSuffix \o WavExt

\* Lines 91-104: the processed samples go to the output file at the
\* vocoder's rate, and its path is returned; None when there are none.
ApplyWrite ==
  /\ pc = "write"
  /\ IF Len(processed_audio) = 0
     THEN result' = ReturnNone /\ written' = written
     ELSE /\ written' = Append(written,
                               [path |-> OutputFile(input_file.path),
                                data |-> processed_audio,
                                samplerate |-> SampleRate])
          /\ result' = [returned |-> TRUE,
                        value |-> <<OutputFile(input_file.path)>>]
  /\ pc' = "idle"
  /\ UNCHANGED <<failed, before>>
  /\ UNCHANGED outside_vocoder
  /\ UNCHANGED <<self, caller, input_file, loaded, original_sr, audio_data,
                 audio, processed_audio, ran, resampled, call>>

(***************************************************************************)
(* The presets.                                                            *)
(***************************************************************************)
\* A load_preset that falls back to classic for a name it does not know.
ClassicUnlessKnown(preset_name, params) ==
  IF preset_name \in DOMAIN Presets THEN Presets[preset_name]
  ELSE Presets.classic

\* The parameters after load_preset(preset_name), params being those before:
\* the values of the table, all six handed to create_custom_preset (360), or
\* for a name outside the table those before (362-363).
LoadedParams(preset_name, params) ==
  IF preset_name \in DOMAIN Presets THEN Presets[preset_name] ELSE params

\* A load_preset that another thread runs while a call is under way.
LoadPresetInFlight(preset_name) ==
  /\ self' = LoadedParams(preset_name, self)
  /\ UNCHANGED <<failed, before>>
  /\ UNCHANGED outside_vocoder
  /\ UNCHANGED <<pc, caller, input_file, loaded, original_sr, audio_data,
                 audio, processed_audio, written, result, ran, resampled, call>>

\* load_preset(preset_name).
LoadPreset(preset_name) ==
  /\ pc = "idle"
  /\ self' = LoadedParams(preset_name, self)
  /\ UNCHANGED <<failed, before>>
  /\ UNCHANGED outside_vocoder
  /\ UNCHANGED <<pc, caller, input_file, loaded, original_sr, audio_data,
                 audio, processed_audio, written, result, ran, resampled, call>>

\* create_custom_preset(...): the six arguments become the parameters.
CreateCustomPreset(custom) ==
  /\ pc = "idle"
  /\ self' = custom
  /\ UNCHANGED <<failed, before>>
  /\ UNCHANGED outside_vocoder
  /\ UNCHANGED <<pc, caller, input_file, loaded, original_sr, audio_data,
                 audio, processed_audio, written, result, ran, resampled, call>>

Next ==
  \/ \E f \in InputFiles : ApplyLoad(f)
  \/ ApplyResample
  \/ ApplyPipeline
  \/ StageNormalizeIn
  \/ StagePitch
  \/ StageFormant
  \/ StageResonance
  \/ StageDistortion
  \/ StageEcho
  \/ StageNormalizeOut
  \/ ApplyWrite
  \/ \E preset_name \in PresetNames : LoadPreset(preset_name)
  \/ \E custom \in CustomParams : CreateCustomPreset(custom)

Spec == Init /\ [][Next]_vars


(***************************************************************************)
(* The stage functions called on their own, as a test of one function      *)
(* calls them: any buffer, any arguments, one call on a new vocoder.       *)
(***************************************************************************)
\* A call of function fn on buffer buf that returned ret.
DirectCall(fn, buf, args, ret) ==
  /\ pc = "idle"
  /\ call = NoCall
  /\ call' = [fn |-> fn, buf |-> buf, args |-> args, returned |-> TRUE,
              ret |-> <<>> \o ret]
  /\ UNCHANGED <<failed, before>>
  /\ UNCHANGED outside_vocoder
  /\ UNCHANGED <<self, pc, caller, input_file, loaded, original_sr,
                 audio_data, audio, processed_audio, written, result, ran,
                 resampled>>

CallNormalize(buf, target_level) ==
  DirectCall("_normalize_audio", buf, <<target_level>>,
             NormalizeAudio(buf, target_level))

\* _normalize_audio on a buffer read from a 16-bit file whose greatest
\* sample is k steps of 2^-15: the call returns, and ret holds the greatest
\* sample of the result as the binary64 arithmetic of line 182 leaves it.
CallNormalizePcm(k, target_level) ==
  DirectCall("_normalize_audio/binary64", <<k>>, <<target_level>>,
             <<NormalizedPeakOf(k, target_level)>>)

CallPitchShift(buf, semitones) ==
  DirectCall("_pitch_shift", buf, <<semitones>>, PitchShift(buf, semitones))

CallFormantShift(buf, shift_ratio) ==
  DirectCall("_formant_shift", buf, <<shift_ratio>>,
             FormantShift(buf, shift_ratio))

CallRoboticResonance(buf, intensity) ==
  DirectCall("_add_robotic_resonance", buf, <<intensity>>,
             AddRoboticResonance(buf, intensity))

CallDistortion(buf, amount) ==
  DirectCall("_apply_distortion", buf, <<amount>>,
             ApplyDistortion(buf, amount))

CallEcho(buf, delay_us, decay) ==
  DirectCall("_add_echo", buf, <<delay_us, decay>>,
             AddEcho(buf, delay_us, decay))

CallResample(buf, orig_sr, target_sr) ==
  DirectCall("_resample_audio", buf, <<orig_sr, target_sr>>,
             ResampleAudio(buf, orig_sr, target_sr))

\* create_custom_preset called before the one call that is looked at, with
\* custom values or with those of a preset.
CallCreateCustomPreset(custom) ==
  /\ call = NoCall
  /\ CreateCustomPreset(custom)

\* load_preset(preset_name) as the call that is looked at: buf holds the
\* parameters before the call.
CallLoadPreset(preset_name) ==
  /\ pc = "idle"
  /\ call = NoCall
  /\ self' = LoadedParams(preset_name, self)
  /\ call' = [fn |-> "load_preset", buf |-> <<self>>,
              args |-> <<preset_name>>, returned |-> TRUE, ret |-> <<>>]
  /\ UNCHANGED <<failed, before>>
  /\ UNCHANGED outside_vocoder
  /\ UNCHANGED <<pc, caller, input_file, loaded, original_sr, audio_data,
                 audio, processed_audio, written, result, ran, resampled>>

\* _apply_effects_pipeline(audio) called on its own: its stages run as the
\* steps above and hand the result back to this call.
CallPipeline(buf) ==
  /\ pc = "idle"
  /\ call = NoCall
  /\ caller' = "direct"
  /\ ran' = <<>>
  /\ PipelineEnter("direct",
                   [fn |-> "_apply_effects_pipeline", buf |-> buf,
                    args |-> <<>>, returned |-> FALSE, ret |-> <<>>],
                   buf)
  /\ UNCHANGED <<failed, before>>
  /\ UNCHANGED outside_vocoder
  /\ UNCHANGED <<self, input_file, loaded, original_sr, audio_data, written,
                 result, resampled>>

NextCall ==
  \/ \E buf \in Buffers(MaxLen), target_level \in CallLevels :
       CallNormalize(buf, target_level)
  \/ \E k \in PcmPeaks, target_level \in CallLevels :
       CallNormalizePcm(k, target_level)
  \/ \E buf \in CallBuffers, semitones \in CallSemitones :
       CallPitchShift(buf, semitones)
  \/ \E buf \in SpectralBuffers, shift_ratio \in CallRatios :
       CallFormantShift(buf, shift_ratio)
  \/ \E buf \in Buffers(MaxLen), intensity \in CallAmounts :
       CallRoboticResonance(buf, intensity)
  \/ \E buf \in Buffers(MaxLen), amount \in CallAmounts :
       CallDistortion(buf, amount)
  \/ \E buf \in Buffers(MaxLen), delay_us \in CallDelays, decay \in CallAmounts :
       CallEcho(buf, delay_us, decay)
  \/ \E buf \in CallBuffers, orig_sr \in CallRates :
       \E target_sr \in {SampleRate, orig_sr} :
         CallResample(buf, orig_sr, target_sr)
  \/ \E buf \in Buffers(MaxLen) : CallPipeline(buf)
  \/ \E custom \in AllParams : CallCreateCustomPreset(custom)
  \/ \E preset_name \in PresetNames : CallLoadPreset(preset_name)
  \/ StageNormalizeIn
  \/ StagePitch
  \/ StageFormant
  \/ StageResonance
  \/ StageDistortion
  \/ StageEcho
  \/ StageNormalizeOut

SpecCall == Init /\ [][NextCall]_vars


(***************************************************************************)
(* Exceptions in the stages.  Any statement of a stage's computation may   *)
(* raise (a library call that fails, memory that runs out); what happens   *)
(* then depends on where the try blocks are.                               *)
(***************************************************************************)
\* The stage at here has a try block, and the guard before it lets the
\* buffer in (lines 190, 224, 254, 275, 292): the computation is attempted.
TryEntered(here) ==
  /\ Len(audio) > 0
  /\ CASE here = "pitch" -> self.pitch_shift_semitones # 0
       [] here = "formant" -> self.formant_shift_ratio # SCALE
       [] here = "resonance" -> self.robotic_intensity # 0
       [] here = "distortion" -> self.distortion_amount # 0
       [] here = "echo" -> self.echo_delay_ms # 0 /\ self.echo_decay # 0
       [] OTHER -> FALSE

\* An effect stage raises inside its try block: the except branch of the
\* stage logs a warning and returns the stage's argument (lines 215-217,
\* 248-250, 269-271, 286-288, 309-311), and the pipeline goes on with it.
StageRaises(here, name, next) ==
  /\ pc = here
  /\ TryEntered(here)
  /\ audio' = audio
  /\ ran' = Append(ran, name)
  /\ before' = audio
  /\ failed' = Append(failed, [at |-> Len(ran) + 1, caught |-> "stage"])
  /\ UNCHANGED outside_vocoder
  /\ pc' = next
  /\ UNCHANGED <<self, caller, input_file, loaded, original_sr, audio_data,
                 processed_audio, written, result, resampled, call>>

\* A pipeline whose except branch returns the buffer the pipeline was
\* called with.
NormalizeRaisesReturnsInput(here) ==
  /\ pc = here
  /\ here \in {"normalize_in", "normalize_out"}
  /\ audio' = audio
  /\ ran' = Append(ran, "_normalize_audio")
  /\ before' = audio
  /\ failed' = Append(failed, [at |-> Len(ran) + 1, caught |-> "pipeline"])
  /\ UNCHANGED outside_vocoder
  /\ PipelineReturn(caller, call, IF caller = "apply" THEN audio_data
                                  ELSE call.buf)
  /\ UNCHANGED <<self, caller, input_file, loaded, original_sr, audio_data,
                 written, result, resampled>>

\* _normalize_audio raises (lines 175-183 have no try block): the exception
\* leaves the stage before line 137 or 167 assigns, and the except branch of
\* the pipeline (171-173) returns the variable audio, which still is the
\* buffer that was handed to the stage.
NormalizeRaises(here) ==
  /\ pc = here
  /\ here \in {"normalize_in", "normalize_out"}
  /\ audio' = audio
  /\ ran' = Append(ran, "_normalize_audio")
  /\ before' = audio
  /\ failed' = Append(failed, [at |-> Len(ran) + 1, caught |-> "pipeline"])
  /\ UNCHANGED outside_vocoder
  /\ PipelineReturn(caller, call, audio)
  /\ UNCHANGED <<self, caller, input_file, loaded, original_sr, audio_data,
                 written, result, resampled>>

\* _apply_effects_pipeline called on its own, with stages that may raise.
NextFault ==
  \/ \E buf \in Buffers(MaxLen) : CallPipeline(buf)
  \/ StageNormalizeIn
  \/ StagePitch
  \/ StageFormant
  \/ StageResonance
  \/ StageDistortion
  \/ StageEcho
  \/ StageNormalizeOut
  \/ NormalizeRaises("normalize_in")
  \/ StageRaises("pitch", "_pitch_shift", "formant")
  \/ StageRaises("formant", "_formant_shift", "resonance")
  \/ StageRaises("resonance", "_add_robotic_resonance", "distortion")
  \/ StageRaises("distortion", "_apply_distortion", "echo")
  \/ StageRaises("echo", "_add_echo", "normalize_out")
  \/ NormalizeRaises("normalize_out")

SpecFault == Init /\ [][NextFault]_vars


(***************************************************************************)
(* apply_glados_effect with failures: what it calls may raise (sf.read on  *)
(* a file that is no audio, scipy.signal.resample, the stages, sf.write).  *)
(* Everything from line 53 to line 104 is inside the try of line 51.       *)
(***************************************************************************)
\* The call is over with the exception on its way to the caller.
ApplyRaisesPropagates(here) ==
  /\ pc = here
  /\ here \in {"resample", "write"}
  /\ here = "resample" => original_sr # SampleRate
  /\ here = "write" => Len(processed_audio) > 0
  /\ failed' = Append(failed, [at |-> 0, caught |-> "nowhere"])
  /\ pc' = "raised"
  /\ UNCHANGED outside_vocoder
  /\ UNCHANGED <<self, caller, input_file, loaded, original_sr, audio_data,
                 audio, processed_audio, written, result, ran, resampled, call,
                 before>>

\* _resample_audio (line 80) or sf.write (line 101) raises: lines 106-108
\* log it and return None.  A write that failed is no write.
ApplyRaises(here) ==
  /\ pc = here
  /\ here \in {"resample", "write"}
  /\ here = "resample" => original_sr # SampleRate
  /\ here = "write" => Len(processed_audio) > 0
  /\ failed' = Append(failed, [at |-> 0, caught |-> "apply"])
  /\ result' = ReturnNone
  /\ pc' = "idle"
  /\ UNCHANGED outside_vocoder
  /\ UNCHANGED <<self, caller, input_file, loaded, original_sr, audio_data,
                 audio, processed_audio, written, ran, resampled, call, before>>

\* sf.read (line 62) raises on file f, which is there and has bytes: lines
\* 106-108 again.
ApplyLoadRaises(f) ==
  /\ pc = "idle"
  /\ ~MissingOrNoBytes(f)
  /\ input_file' = f
  /\ caller' = "apply"
  /\ loaded' = <<>>
  /\ audio_data' = <<>>
  /\ original_sr' = SampleRate
  /\ audio' = <<>>
  /\ processed_audio' = <<>>
  /\ written' = <<>>
  /\ ran' = <<>>
  /\ resampled' = FALSE
  /\ call' = NoCall
  /\ before' = <<>>
  /\ failed' = <<[at |-> 0, caught |-> "apply"]>>
  /\ result' = ReturnNone
  /\ pc' = "idle"
  /\ UNCHANGED self
  /\ UNCHANGED outside_vocoder

\* The steps of a call that is under way, failing or not.
ApplySteps ==
  \/ ApplyResample
  \/ ApplyRaises("resample")
  \/ ApplyPipeline
  \/ StageNormalizeIn
  \/ NormalizeRaises("normalize_in")
  \/ StagePitch
  \/ StageRaises("pitch", "_pitch_shift", "formant")
  \/ StageFormant
  \/ StageRaises("formant", "_formant_shift", "resonance")
  \/ StageResonance
  \/ StageRaises("resonance", "_add_robotic_resonance", "distortion")
  \/ StageDistortion
  \/ StageRaises("distortion", "_apply_distortion", "echo")
  \/ StageEcho
  \/ StageRaises("echo", "_add_echo", "normalize_out")
  \/ StageNormalizeOut
  \/ NormalizeRaises("normalize_out")
  \/ ApplyWrite
  \/ ApplyRaises("write")

\* The files of at most one frame: missing, of no bytes, without samples,
\* of one and two channels, at each rate.
FaultFiles == {f \in InputFiles : Len(f.frames) <= 1}

NextApplyFault ==
  \/ \E f \in FaultFiles : ApplyLoad(f)
  \/ \E f \in FaultFiles : ApplyLoadRaises(f)
  \/ ApplySteps

SpecApplyFault == Init /\ [][NextApplyFault]_vars

(***************************************************************************)
(* TTSCore.speak(text, use_vocoder): synthesis, the vocoder on the file    *)
(* synthesized, playback.  In speak, vocoder tells how the vocoder fared   *)
(* and playback how the playing did; ret is <<>> until speak returns.      *)
(***************************************************************************)
\* The files synthesize_to_file hands back: a file that is there, a .wav or
\* the .mp3 of _gtts_synthesize.
SynthFiles ==
  {f \in FaultFiles : f.exists}
  \cup {f \in InputFiles : f.path = <<"s", ".", "m", "p", "3">>}

\* Lines 428-435: synthesis fails and speak returns False, or it gives file
\* f, which becomes audio_file.  The vocoder of the speak before is gone
\* with that call, and so is what is on record of it.
SpeakSynthesize(use_vocoder, f, success) ==
  /\ speak.pc = "idle"
  /\ pc = "idle"
  /\ caller' = "none"
  /\ input_file' = NoFile
  /\ loaded' = <<>>
  /\ original_sr' = SampleRate
  /\ audio_data' = <<>>
  /\ audio' = <<>>
  /\ processed_audio' = <<>>
  /\ written' = <<>>
  /\ result' = Pending
  /\ ran' = <<>>
  /\ resampled' = FALSE
  /\ call' = NoCall
  /\ failed' = <<>>
  /\ before' = <<>>
  /\ UNCHANGED <<self, pc>>
  /\ speak' = IF success
              THEN [pc |-> "vocoder", use_vocoder |-> use_vocoder,
                    synthesized |-> f, audio_file |-> <<f.path>>,
                    vocoder |-> "none", playback |-> "none",
                    played |-> <<>>, ret |-> <<>>]
              ELSE [NoSpeak EXCEPT !.use_vocoder = use_vocoder,
                                   !.ret = <<FALSE>>]
  /\ UNCHANGED assistant_vars

\* Lines 438 and 450-451: no vocoder was asked for, or numpy or soundfile
\* is not there.
SpeakSkipVocoder ==
  /\ speak.pc = "vocoder"
  /\ speak' = [speak EXCEPT !.pc = "play",
                            !.vocoder = IF speak.use_vocoder
                                        THEN "unavailable"
                                        ELSE "not_requested"]
  /\ UNCHANGED vocoder_vars
  /\ UNCHANGED assistant_vars

\* Lines 440-441 raise (the import, or the constructor): lines 446-449.
SpeakVocoderRaises ==
  /\ speak.pc = "vocoder"
  /\ speak.use_vocoder
  /\ speak' = [speak EXCEPT !.pc = "play", !.vocoder = "raised"]
  /\ UNCHANGED vocoder_vars
  /\ UNCHANGED assistant_vars

\* Line 441: vocoder = GLaDOSVocoder(), a new object with the parameters of
\* __init__.
SpeakConstruct ==
  /\ speak.pc = "vocoder"
  /\ speak.use_vocoder
  /\ speak' = [speak EXCEPT !.pc = "apply"]
  /\ self' = DefaultParams
  /\ result' = Pending
  /\ UNCHANGED <<pc, caller, input_file, loaded, original_sr, audio_data,
                 audio, processed_audio, written, ran, resampled, call, failed,
                 before>>
  /\ UNCHANGED assistant_vars

\* Line 442: apply_glados_effect(audio_file) starts.
SpeakApply ==
  /\ speak.pc = "apply"
  /\ result = Pending
  /\ ApplyLoad(speak.synthesized) \/ ApplyLoadRaises(speak.synthesized)

\* A speak that gives up when the vocoder returns None.
SpeakVocoderGivesUp ==
  /\ speak.pc = "apply"
  /\ pc = "idle"
  /\ result.returned
  /\ speak' = IF result.value # <<>>
              THEN [speak EXCEPT !.pc = "play", !.vocoder = "applied",
                                 !.audio_file = result.value]
              ELSE [speak EXCEPT !.pc = "idle", !.vocoder = "returned_none",
                                 !.ret = <<FALSE>>]
  /\ UNCHANGED vocoder_vars
  /\ UNCHANGED assistant_vars

\* Lines 442-445: apply_glados_effect has returned; its path becomes
\* audio_file, None leaves audio_file as it was.
SpeakVocoderReturns ==
  /\ speak.pc = "apply"
  /\ pc = "idle"
  /\ result.returned
  /\ speak' = IF result.value # <<>>
              THEN [speak EXCEPT !.pc = "play", !.vocoder = "applied",
                                 !.audio_file = result.value]
              ELSE [speak EXCEPT !.pc = "play", !.vocoder = "returned_none"]
  /\ UNCHANGED vocoder_vars
  /\ UNCHANGED assistant_vars

\* Lines 454-465: pygame plays audio_file and speak returns True, or the
\* playing raises and speak returns False.
SpeakPlay(ok) ==
  /\ speak.pc = "play"
  /\ speak' = IF ok
              THEN [speak EXCEPT !.pc = "idle", !.playback = "played",
                                 !.played = speak.audio_file,
                                 !.ret = <<TRUE>>]
              ELSE [speak EXCEPT !.pc = "idle", !.playback = "failed",
                                 !.ret = <<FALSE>>]
  /\ UNCHANGED vocoder_vars
  /\ UNCHANGED assistant_vars

NextSpeak ==
  \/ \E use_vocoder \in BOOLEAN, f \in SynthFiles, success \in BOOLEAN :
       SpeakSynthesize(use_vocoder, f, success)
  \/ SpeakSkipVocoder
  \/ SpeakVocoderRaises
  \/ SpeakConstruct
  \/ SpeakApply
  \/ ApplySteps
  \/ SpeakVocoderReturns
  \/ \E ok \in BOOLEAN : SpeakPlay(ok)

SpecSpeak == Init /\ [][NextSpeak]_vars

(***************************************************************************)
(* AIAssistantCore (src/modules/ai_assistant_core.py): the conversation    *)
(* history and the calls that change it.  A message is its role and its    *)
(* content; request is the record of the last call when that was a         *)
(* generate_response: the messages it sent, how the request ended and the  *)
(* content that came back.                                                 *)
(***************************************************************************)
\* What the callers say, what comes back, and the system prompts.
UserTexts == {"hello", "bye"}

Replies == {"ok"}

SystemPrompts == {SystemPrompt, "Be brief."}

AIMessage(role, content) == [role |-> role, content |-> content]

\* An add_system_message that keeps the system messages that are there.
InsertSystemMessage(history, content) ==
  <<AIMessage("system", content)>> \o history

\* Lines 81-85: the history without its system messages, the new one put
\* first.
WithSystemMessage(history, content) ==
  <<AIMessage("system", content)>>
    \o SelectSeq(history, LAMBDA msg : msg.role # "system")

\* add_system_message(content).
AddSystemMessage(content) ==
  /\ Len(conversation_history) < MaxHistory
  /\ conversation_history' = WithSystemMessage(conversation_history, content)
  /\ request' = NoRequest
  /\ UNCHANGED vocoder_vars
  /\ UNCHANGED speak

\* add_user_message(content), lines 89-90.
AddUserMessage(content) ==
  /\ Len(conversation_history) < MaxHistory
  /\ conversation_history' =
       Append(conversation_history, AIMessage("user", content))
  /\ request' = NoRequest
  /\ UNCHANGED vocoder_vars
  /\ UNCHANGED speak

\* add_assistant_message(content), lines 94-95.
AddAssistantMessage(content) ==
  /\ Len(conversation_history) < MaxHistory
  /\ conversation_history' =
       Append(conversation_history, AIMessage("assistant", content))
  /\ request' = NoRequest
  /\ UNCHANGED vocoder_vars
  /\ UNCHANGED speak

\* clear_conversation(keep_system), lines 99-103.
ClearConversation(keep_system) ==
  /\ conversation_history' =
       IF keep_system
       THEN SelectSeq(conversation_history, LAMBDA msg : msg.role = "system")
       ELSE <<>>
  /\ request' = NoRequest
  /\ UNCHANGED vocoder_vars
  /\ UNCHANGED speak

\* The history after a generate_response that takes back the user message
\* when the request fails.
RolledBack(history, user_input, outcome, content) ==
  IF outcome = "ok"
  THEN history \o <<AIMessage("user", user_input),
                    AIMessage("assistant", content)>>
  ELSE history

\* The history after generate_response(user_input): the user message is
\* added (165), and the assistant's when the response has success (181-182).
Responded(history, user_input, outcome, content) ==
  IF outcome = "ok"
  THEN history \o <<AIMessage("user", user_input),
                    AIMessage("assistant", content)>>
  ELSE Append(history, AIMessage("user", user_input))

\* generate_response(user_input), lines 165-184: the messages handed to the
\* request are the history with the user message (168).  The request gives
\* a response with content ("ok"), a response without success (141-152,
\* "failed"), or raises something else, which leaves generate_response
\* ("raised").
GenerateResponse(user_input, outcome, content) ==
  /\ Len(conversation_history) + 2 <= MaxHistory
  /\ outcome # "ok" => content = ""
  /\ conversation_history' =
       Responded(conversation_history, user_input, outcome, content)
  /\ request' = [messages |-> Append(conversation_history,
                                     AIMessage("user", user_input)),
                 outcome |-> outcome,
                 content |-> content]
  /\ UNCHANGED vocoder_vars
  /\ UNCHANGED speak

NextAssistant ==
  \/ \E content \in SystemPrompts : AddSystemMessage(content)
  \/ \E content \in UserTexts : AddUserMessage(content)
  \/ \E content \in Replies : AddAssistantMessage(content)
  \/ \E keep_system \in BOOLEAN : ClearConversation(keep_system)
  \/ \E user_input \in UserTexts, outcome \in {"ok", "failed", "raised"},
        content \in Replies \cup {""} :
       GenerateResponse(user_input, outcome, content)

SpecAssistant == Init /\ [][NextAssistant]_vars

(***************************************************************************)
(* Properties of apply_glados_effect and of the pipeline.                  *)
(***************************************************************************)
IsPrefix(s, t) == Len(s) <= Len(t) /\ SubSeq(t, 1, Len(s)) = s

\* Lines 137-167: the stages in the order of the pipeline's calls.
StageOrder ==
  <<"_normalize_audio", "_pitch_shift", "_formant_shift",
    "_add_robotic_resonance", "_apply_distortion", "_add_echo",
    "_normalize_audio">>

\* What runs for a file of rate original_sr: resampling first when the rate
\* is not the vocoder's (line 79), then the stages.
ExpectedRan ==
  (IF original_sr # SampleRate THEN <<"_resample_audio">> ELSE <<>>)
    \o StageOrder

\* C1: for every file with samples and every parameter setting, the stages
\* run in the order resample (when the rate differs), normalize, pitch,
\* formant, resonance, distortion, echo, normalize: at every moment what ran
\* so far is a prefix of that order, and when the pipeline has returned all
\* of it ran, each stage once and none skipped.
C1_StageOrder ==
  caller = "apply" =>
    /\ IsPrefix(ran, ExpectedRan)
    /\ (pc = "write" \/ written # <<>>) => ran = ExpectedRan

\* A file at another rate went through all eight steps and was written.
C1_Witness ==
  /\ caller = "apply"
  /\ written # <<>>
  /\ original_sr # SampleRate
  /\ Len(ran) = 8
  /\ self # DefaultParams

\* The functions a buffer can be handed to on its own.
StageFunctions ==
  {"_normalize_audio", "_pitch_shift", "_formant_shift",
   "_add_robotic_resonance", "_apply_distortion", "_add_echo",
   "_resample_audio", "_apply_effects_pipeline"}

\* C2: every stage, and the pipeline as a whole, called on a buffer of no
\* samples returns that empty buffer: the call returns, what it returns has
\* no samples, and the pipeline ran no stage on the way.
C2_EmptyInEmptyOut ==
  (call.fn \in StageFunctions /\ Len(call.buf) = 0) =>
    /\ call.returned
    /\ call.ret = call.buf
    /\ ran = <<>>

\* The pipeline was called with a buffer of no samples and returned.
C2_Witness ==
  /\ call.fn = "_apply_effects_pipeline"
  /\ Len(call.buf) = 0
  /\ call.returned
  /\ call.ret = <<>>

\* The argument values at which an effect is switched off: zero semitones, a
\* formant ratio of 1.0, zero intensity, zero distortion, an echo decay of
\* zero at any delay.
SwitchedOff ==
  \/ call.fn = "_pitch_shift" /\ call.args = <<0>>
  \/ call.fn = "_formant_shift" /\ call.args = <<SCALE>>
  \/ call.fn = "_add_robotic_resonance" /\ call.args = <<0>>
  \/ call.fn = "_apply_distortion" /\ call.args = <<0>>
  \/ call.fn = "_add_echo" /\ call.args[2] = 0

\* C3: a stage whose parameter switches it off returns its input, sample for
\* sample: pitch shift by 0 semitones, formant shift by ratio 1.0, resonance
\* of intensity 0, distortion of amount 0, echo of decay 0 at any delay.
C3_ZeroParameterIdentity ==
  SwitchedOff => (call.returned /\ call.ret = call.buf)

\* The formant shift at ratio 1.0 returned a buffer of three samples that
\* are not all alike.
C3_Witness ==
  /\ call.fn = "_formant_shift"
  /\ call.args = <<SCALE>>
  /\ call.returned
  /\ Len(call.buf) = MaxLen
  /\ call.buf[1] # call.buf[2]
  /\ call.ret = call.buf

\* C4: _normalize_audio returns a buffer of the same length whose greatest
\* absolute sample does not exceed the target level, up to the rounding of
\* binary64: in exact arithmetic the peak is at most the target, and the
\* peak the code computes is at most the binary64 next above the target.  A
\* buffer of zeros (and the empty one) comes back unchanged, by the test of
\* line 181 and without a division.
C4_NormalizePeak ==
  /\ (call.fn = "_normalize_audio" /\ call.returned) =>
       /\ Len(call.ret) = Len(call.buf)
       /\ IF IsSilent(call.buf) THEN call.ret = call.buf
          ELSE Peak(call.ret) <= call.args[1]
  /\ call.fn = "_normalize_audio/binary64" =>
       F64CmpPos(call.ret[1], F64NextUp(F64LevelOf(call.args[1]))) <= 0

\* A peak of 7 steps normalized to 0.9 came out one step of binary64 above
\* 0.9.
C4_Witness ==
  /\ call.fn = "_normalize_audio/binary64"
  /\ call.buf = <<7>>
  /\ call.args = <<TargetLevel>>
  /\ call.ret[1] = F64NextUp(F64LevelOf(TargetLevel))

\* C4 as stated: the greatest absolute sample of what _normalize_audio
\* returns never exceeds the target level.
C4_PeakNeverAboveTarget ==
  /\ (call.fn = "_normalize_audio" /\ call.returned /\ ~IsSilent(call.buf)) =>
       Peak(call.ret) <= call.args[1]
  /\ call.fn = "_normalize_audio/binary64" =>
       F64CmpPos(call.ret[1], F64LevelOf(call.args[1])) <= 0

\* C5: whenever the pipeline was entered with a buffer that has a sample
\* other than zero, whatever the preset and however short the buffer, the
\* buffer it returns has a peak of exactly the target level 0.9.
C5_FinalPeak ==
  (caller = "apply" /\ pc = "write" /\ ~IsSilent(audio_data)) =>
    Peak(processed_audio) = TargetLevel

\* C6: a buffer of zeros entering the pipeline comes out as a buffer of
\* zeros of the same length, for each of the presets and every length: no
\* stage makes sound out of silence.
C6_SilenceStaysSilent ==
  (/\ caller = "apply" /\ pc = "write" /\ IsSilent(audio_data)
   /\ self \in {Presets[n] : n \in DOMAIN Presets}) =>
    processed_audio = audio_data

\* Three samples of silence went through all stages under preset heavy.
C6_Witness ==
  /\ caller = "apply"
  /\ pc = "write"
  /\ self = Presets.heavy
  /\ audio_data = Zeros(MaxLen)
  /\ processed_audio = Zeros(MaxLen)
  /\ Len(ran) >= 7

\* C7: _resample_audio called with the target rate equal to the buffer's
\* rate returns the buffer it was given, sample for sample, for every buffer.
C7_ResampleSameRate ==
  (call.fn = "_resample_audio" /\ call.args[1] = call.args[2]) =>
    (call.returned /\ call.ret = call.buf)

\* A buffer of three unlike samples at 16170 Hz was resampled to 16170 Hz.
C7_Witness ==
  /\ call.fn = "_resample_audio"
  /\ call.args = <<16170, 16170>>
  /\ Len(call.buf) = MaxLen
  /\ call.buf[1] # call.buf[2]
  /\ call.ret = call.buf

\* C8: when the rates differ and floor(len * target_sr / original_sr) is
\* above zero, _resample_audio returns exactly that many samples.
C8_ResampleLength ==
  (/\ call.fn = "_resample_audio"
   /\ call.args[1] # call.args[2]
   /\ (Len(call.buf) * call.args[2]) \div call.args[1] > 0) =>
    (/\ call.returned
     /\ Len(call.ret) = (Len(call.buf) * call.args[2]) \div call.args[1])

\* C9: when the rates differ, the buffer has samples and the new length the
\* code computes is zero or less, _resample_audio returns the samples it
\* was given: it neither fails nor returns an empty buffer.
C9_ResampleDegenerate ==
  (/\ call.fn = "_resample_audio"
   /\ call.args[1] # call.args[2]
   /\ Len(call.buf) > 0
   /\ NewLengthOf(Len(call.buf), call.args[1], call.args[2]) <= 0) =>
    (call.returned /\ call.ret = call.buf)

\* One sample at 44100 Hz, of which half a sample would be left at 22050 Hz.
C9_Witness ==
  /\ call.fn = "_resample_audio"
  /\ call.args = <<2 * SampleRate, SampleRate>>
  /\ call.buf = <<SCALE>>
  /\ call.ret = <<SCALE>>

\* apply_glados_effect has handed its buffer to the pipeline, or written it.
PastResample ==
  /\ caller = "apply"
  /\ pc \notin {"idle", "resample"} \/ written # <<>>

\* The length line 120 computes for the samples of the file.
FileNewLength == NewLengthOf(Len(loaded), original_sr, SampleRate)

C11_PitchShiftLength ==
  (call.fn = "_pitch_shift" /\ call.args[1] # 0 /\ Len(call.buf) > 0) =>
    /\ call.returned
    /\ Len(call.ret) = Len(call.buf)
    /\ call.ret[1] = call.buf[1]
    /\ call.args[1] = 12 =>
         \A k \in 1..Len(call.buf) :
           call.ret[k] = IF 2 * (k - 1) < Len(call.buf)
                         THEN call.buf[2 * (k - 1) + 1] ELSE 0

\* Three samples an octave up: the first, the third and a zero.
C11_Witness ==
  /\ call.fn = "_pitch_shift"
  /\ call.args = <<12>>
  /\ call.buf = <<SCALE, SCALE, -(SCALE \div 2)>>
  /\ call.ret = <<SCALE, -(SCALE \div 2), 0>>

\* The conjugate of a complex number.
Conj(z) == <<z[1], -z[2]>>

\* Bin n - k holds the conjugate of bin k, for every k in 1..n-1.
IsHermitian(spectrum) ==
  \A k \in 1..(Len(spectrum) - 1) :
    spectrum[Len(spectrum) - k + 1] = Conj(spectrum[k + 1])

\* C12: in _formant_shift with a ratio other than 1.0 the relocated spectrum
\* is Hermitian-symmetric: with source bin i copied to bin d the value of
\* the mirror bin N - i is placed at the mirror bin N - d, so that for every
\* k in 1..N-1 bin N - k holds the conjugate of bin k.
C12_HermitianSpectrum ==
  (call.fn = "_formant_shift" /\ call.args[1] # SCALE /\ Len(call.buf) > 0) =>
    IsHermitian(ShiftedSpectrum(call.buf, call.args[1]))

\* d is an integer nearest to delay_ms * sample_rate / 1000, the delay being
\* given in thousandths of a millisecond: twice the distance is at most one.
IsNearestDelay(d, delay_us) ==
  2 * Abs(d * 10^6 - delay_us * SampleRate) <= 10^6

\* C13: _add_echo computes delay_samples as delay_ms * sample_rate / 1000
\* rounded to the nearest integer, for every delay it computes with.
C13_DelayRounded ==
  (/\ call.fn = "_add_echo"
   /\ call.args[1] # 0 /\ call.args[2] # 0 /\ Len(call.buf) > 0) =>
    IsNearestDelay(DelaySamplesOf(call.args[1]), call.args[1])

\* out is buffer a with an echo of d samples' delay: a itself when d is not
\* in 1..N-1, else as long as a, equal to a before place d and a[i] plus
\* decay times a[i - d] from place d on (places counted from 0).
IsEchoOf(out, a, d, decay) ==
  IF d <= 0 \/ d >= Len(a) THEN out = a
  ELSE /\ Len(out) = Len(a)
       /\ \A i \in 0..(Len(a) - 1) :
            out[i + 1] = IF i < d THEN a[i + 1]
                         ELSE a[i + 1] + MulFx(decay, a[i + 1 - d])

\* C14: for a buffer a of N samples, a delay and a decay other than zero and
\* the delay d in samples: _add_echo returns a unchanged if d <= 0 or
\* d >= N; otherwise N samples with out[i] = a[i] for i < d and
\* out[i] = a[i] + decay * a[i - d] for i >= d.
C14_EchoCausal ==
  (/\ call.fn = "_add_echo"
   /\ call.args[1] # 0 /\ call.args[2] # 0 /\ Len(call.buf) > 0) =>
    /\ call.returned
    /\ IsEchoOf(call.ret, call.buf, DelaySamplesOf(call.args[1]), call.args[2])

\* An echo of one sample's delay on three samples.
C14_Witness ==
  /\ call.fn = "_add_echo"
  /\ call.args = <<50, Pct(30)>>
  /\ call.buf = <<SCALE, 0, -(SCALE \div 2)>>
  /\ call.ret = <<SCALE, Pct(30), -(SCALE \div 2)>>

\* C15: whenever _apply_distortion has done its soft clipping (the amount is
\* not zero and the buffer has samples), threshold = 1 - amount was not
\* zero: no parameter state that load_preset and create_custom_preset lead
\* to has a distortion amount of 1, so nothing was divided by zero.
C15_ThresholdNotZero ==
  (/\ caller = "apply"
   /\ ran # <<>> /\ ran[Len(ran)] = "_apply_distortion"
   /\ self.distortion_amount # 0) =>
    SCALE - self.distortion_amount # 0

\* The table of presets as the claim states it: pitch, formant, robotic,
\* echo delay in ms, echo decay, distortion.
ClaimedPresets ==
  [subtle  |-> Params(-1, Pct(90), Pct(20), 30 * 1000, Pct(15), Pct(5)),
   classic |-> Params(-2, Pct(85), Pct(30), 50 * 1000, Pct(20), Pct(10)),
   heavy   |-> Params(-3, Pct(80), Pct(50), 70 * 1000, Pct(30), Pct(15))]

\* C19: a new vocoder holds the values of classic, and load_preset with one
\* of the names subtle, classic and heavy sets all six parameters to the
\* values of that preset in the table, whatever they were before: nothing
\* of an earlier preset or custom preset is left.
C19_LoadPresetSetsAll ==
  /\ self = ClaimedPresets.classic
  /\ [](\A name \in DOMAIN ClaimedPresets :
          (call.fn = "load_preset" /\ call.args = <<name>>) =>
            (call.returned /\ self = ClaimedPresets[name]))

\* heavy was loaded over a custom preset that has no value in common with it.
C19_Witness ==
  /\ call.fn = "load_preset"
  /\ call.args = <<"heavy">>
  /\ call.buf = <<Params(3, Pct(120), Pct(40), 50, Pct(50), Pct(20))>>
  /\ self = ClaimedPresets.heavy

\* C20: load_preset with a name that is none of subtle, classic and heavy
\* returns without an error and leaves all six parameters as they were
\* before the call, whatever they were; the processing rate is a constant of
\* the vocoder which no method assigns.
C20_UnknownPresetNoChange ==
  (call.fn = "load_preset" /\ call.args[1] \notin DOMAIN ClaimedPresets) =>
    (call.returned /\ self = call.buf[1])

\* The name "nonexistent" was loaded over a custom preset.
C20_Witness ==
  /\ call.fn = "load_preset"
  /\ call.args = <<"nonexistent">>
  /\ call.buf = <<Params(3, Pct(120), Pct(40), 50, Pct(50), Pct(20))>>
  /\ self = Params(3, Pct(120), Pct(40), 50, Pct(50), Pct(20))

C17_FailureCaughtInStage ==
  \A i \in DOMAIN failed :
    /\ failed[i].caught = "stage"
    /\ failed[i].at = Len(ran) => audio = before
    /\ call.returned => Len(ran) = Len(StageOrder)

(***************************************************************************)
(* Properties of apply_glados_effect's checks of its source.               *)
(***************************************************************************)
\* C21: when the input file is missing, has no bytes or holds no samples,
\* apply_glados_effect returns None at once: the call is over, no stage and
\* no resampling has run, the pipeline was not entered and nothing was
\* written.
C21_MissingSourceFails ==
  (caller = "apply"
     /\ (~input_file.exists \/ input_file.size = 0
           \/ Len(input_file.frames) = 0)) =>
    /\ pc = "idle"
    /\ result = ReturnNone
    /\ ran = <<>>
    /\ audio = <<>>
    /\ processed_audio = <<>>
    /\ written = <<>>

\* A two-channel file with a header and no frames was turned away.
C21_Witness ==
  /\ caller = "apply"
  /\ input_file.exists
  /\ input_file.size > 0
  /\ input_file.channels = 2
  /\ Len(input_file.frames) = 0
  /\ result = ReturnNone
  /\ written = <<>>

(***************************************************************************)
(* Properties of apply_glados_effect when what it calls fails.             *)
(***************************************************************************)
\* The places of a call of apply_glados_effect, in the order of its lines.
ApplyOrder ==
  <<"resample", "pipeline", "normalize_in", "pitch", "formant", "resonance",
    "distortion", "echo", "normalize_out", "write">>

PlaceOf(p) == CHOOSE i \in DOMAIN ApplyOrder : ApplyOrder[i] = p

\* C22: apply_glados_effect hands no exception to its caller and every call
\* comes to an end, for every file and also when sf.read, the resampling, a
\* stage or sf.write raises.  A call that has returned gave None, or the
\* path of the file it wrote last; a call that is under way stands at one
\* of the ten places above, never outside them with an exception on its way
\* up; and every step of a call under way returns from it or takes it to a
\* later place, so that it returns after ten steps at most.
C22_ReturnsPathOrNone ==
  /\ [](/\ pc \in {"idle"} \cup {ApplyOrder[i] : i \in DOMAIN ApplyOrder}
        /\ pc = "idle" /\ caller = "apply" => result.returned
        /\ result.returned =>
             \/ result.value = <<>>
             \/ /\ written # <<>>
                /\ result.value = <<written[Len(written)].path>>)
  /\ [][pc # "idle" =>
         \/ pc' = "idle" /\ result'.returned
         \/ pc' # "idle" /\ PlaceOf(pc') > PlaceOf(pc)]_vars

\* sf.write raised after all seven stages had run; the call returned None
\* and no write is on record.
C22_Witness ==
  /\ caller = "apply"
  /\ Len(ran) = 7
  /\ failed = <<[at |-> 0, caught |-> "apply"]>>
  /\ Len(processed_audio) = 1
  /\ written = <<>>
  /\ result = ReturnNone
  /\ pc = "idle"

(***************************************************************************)
(* Properties of the output path.                                          *)
(***************************************************************************)
\* C23: with no output path given, the file is written to the input path
\* without its extension, followed by "_glados.wav": for an input that ends
\* in ".wav" that is "_glados" put right before the extension, for any
\* other input the extension is replaced by ".wav" (or ".wav" is added when
\* there is none).  The path written to is never the input path.
C23_OutputPath ==
  \A i \in DOMAIN written :
    LET root == SplitExt(input_file.path)[1]
        ext == SplitExt(input_file.path)[2]
    IN /\ written[i].path = root \o GladosSuffix \o WavExt
       /\ ext = WavExt => written[i].path = root \o GladosSuffix \o ext
       /\ written[i].path # input_file.path
       /\ result.returned => result.value = <<written[i].path>>

\* "s.mp3" was processed and written to "s_glados.wav".
C23_Witness ==
  /\ input_file.path = <<"s", ".", "m", "p", "3">>
  /\ written # <<>>
  /\ written[1].path =
       <<"s", "_", "g", "l", "a", "d", "o", "s", ".", "w", "a", "v">>
  /\ result.value = <<written[1].path>>

\* C23 as stated: the path written to is the input path with "_glados" put
\* right before the input's own extension, which is kept, and it differs
\* from the input path.
C23_ExtensionKept ==
  \A i \in DOMAIN written :
    /\ written[i].path =
         SplitExt(input_file.path)[1] \o GladosSuffix
           \o SplitExt(input_file.path)[2]
    /\ written[i].path # input_file.path

EffectStages ==
  {"_normalize_audio", "_pitch_shift", "_formant_shift",
   "_add_robotic_resonance", "_apply_distortion", "_add_echo"}

\* C25: each of the six effect stages returns as many samples as it was
\* given, whatever its parameter (also a shift of an octave, a ratio above
\* one, an amount of 1.0 and a delay beyond the buffer), so a buffer with
\* samples never comes back empty; and the pipeline as a whole returns as
\* many samples as it was entered with.
C25_SampleCountKept ==
  (call.returned /\ call.fn \in EffectStages \cup {"_apply_effects_pipeline"})
    => Len(call.ret) = Len(call.buf)

\* An echo of one sample on a buffer of three, at full decay.
C25_Witness ==
  /\ call.returned
  /\ call.fn = "_add_echo"
  /\ call.args = <<50, SCALE>>
  /\ call.buf = <<SCALE, 0, -(SCALE \div 2)>>
  /\ call.ret = <<SCALE, SCALE, -(SCALE \div 2)>>

(***************************************************************************)
(* Properties of the relocation of bins in _formant_shift.                 *)
(***************************************************************************)
\* floor(i * ratio), the ratio being given in fixed point.
FloorIdx(i, shift_ratio) == (i * shift_ratio) \div SCALE

\* The source bins of a spectrum of n bins whose destination floor(i * ratio)
\* lies in 0..n/2-1: those of positive frequency below n/2, never bin 0.
Relocated(n, shift_ratio) ==
  {i \in 1..(n \div 2 - 1) : FloorIdx(i, shift_ratio) \in 0..(n \div 2 - 1)}

\* C26: in _formant_shift with a ratio other than 1.0, the relocated
\* spectrum holds, for every source bin i of positive frequency whose
\* destination d = floor(i * ratio) lies in 0..N/2-1, the value of bin i at
\* bin d and the value of the bin counted i + 1 from the end at the bin
\* counted d + 1 from the end (the last such i for a d, where several share
\* one), and zero at every bin that is no such destination and no such
\* mirror; bin 0 is never a source.
C26_BinsRelocated ==
  (call.fn = "_formant_shift" /\ call.args[1] # SCALE /\ Len(call.buf) > 0) =>
    LET n == Len(call.buf)
        from == Relocated(n, call.args[1])
        fft_data == FFT(call.buf)
        shifted_fft == ShiftedSpectrum(call.buf, call.args[1])
    IN /\ \A i \in from :
            (\A j \in from : FloorIdx(j, call.args[1])
                               = FloorIdx(i, call.args[1]) => j <= i)
              => /\ shifted_fft[FloorIdx(i, call.args[1]) + 1] = fft_data[i + 1]
                 /\ shifted_fft[n - FloorIdx(i, call.args[1])] = fft_data[n - i]
       /\ \A k \in 1..n :
            (\A i \in from : /\ k # FloorIdx(i, call.args[1]) + 1
                             /\ k # n - FloorIdx(i, call.args[1]))
              => shifted_fft[k] = CZero

(***************************************************************************)
(* Properties of TTSCore.speak.                                            *)
(***************************************************************************)
\* The vocoder was asked for and gave nothing: it returned None, it raised,
\* or what it needs is not there.
VocoderFailed ==
  /\ speak.use_vocoder
  /\ speak.vocoder \in {"returned_none", "raised", "unavailable"}

\* C27: in speak with use_vocoder set and a synthesis that succeeded, a
\* vocoder that returns None, raises or is not there leaves speak with the
\* synthesized file: speak goes on to play that file, a speak that returned
\* True has played it, and a speak that returned False did so because the
\* playing failed, never for the vocoder alone.
C27_PlaysUnprocessedFile ==
  VocoderFailed =>
    /\ speak.audio_file = <<speak.synthesized.path>>
    /\ speak.pc \in {"play", "idle"}
    /\ speak.pc = "idle" => speak.ret # <<>> /\ speak.playback # "none"
    /\ speak.ret = <<TRUE>> =>
         speak.playback = "played" /\ speak.played = <<speak.synthesized.path>>
    /\ speak.ret = <<FALSE>> => speak.playback = "failed"

\* sf.write failed in the vocoder, which returned None; speak played the
\* synthesized file and returned True.
C27_Witness ==
  /\ speak.use_vocoder
  /\ speak.vocoder = "returned_none"
  /\ failed = <<[at |-> 0, caught |-> "apply"]>>
  /\ Len(ran) >= 7
  /\ result = ReturnNone
  /\ speak.ret = <<TRUE>>
  /\ speak.played = <<speak.synthesized.path>>

(***************************************************************************)
(* Properties of the conversation history.                                 *)
(***************************************************************************)
\* The history has one system message, and it comes first.
OneSystemFirst(history) ==
  /\ Len(history) >= 1
  /\ history[1].role = "system"
  /\ \A i \in 2..Len(history) : history[i].role # "system"

\* C28: after construction the history holds exactly one system message, at
\* index 0, and every call of add_system_message, add_user_message,
\* add_assistant_message, generate_response and clear_conversation with
\* keep_system = True keeps it so; the one call that takes it away is
\* clear_conversation(keep_system = False), which leaves the history empty.
C28_OneSystemMessage ==
  /\ OneSystemFirst(conversation_history)
  /\ [][(OneSystemFirst(conversation_history) /\ conversation_history' # <<>>)
          => OneSystemFirst(conversation_history')]_vars

\* The system message was replaced after two user messages: the new one is
\* first and the only one.
C28_Witness ==
  /\ Len(conversation_history) = 3
  /\ conversation_history[1] = AIMessage("system", "Be brief.")
  /\ conversation_history[2].role = "user"
  /\ conversation_history[3].role = "user"
  /\ request = NoRequest

\* C29: every generate_response sends the history with the user message
\* added at its end, and leaves the history as what it sent, followed by
\* the assistant's message with the content that came back when the request
\* had success, and by nothing when it had not: then the user message stays.
C29_HistoryGrowth ==
  [][request' # NoRequest =>
       \E user_input \in UserTexts :
         LET sent == Append(conversation_history,
                            AIMessage("user", user_input))
         IN /\ request'.messages = sent
            /\ request'.outcome = "ok" =>
                 conversation_history' =
                   Append(sent, AIMessage("assistant", request'.content))
            /\ request'.outcome # "ok" => conversation_history' = sent]_vars

\* Two requests in a row failed: the history ends in two user messages.
C29_Witness ==
  /\ request.outcome = "failed"
  /\ Len(conversation_history) = 3
  /\ conversation_history[1].role = "system"
  /\ conversation_history[2].role = "user"
  /\ conversation_history[3].role = "user"
  /\ request.messages = conversation_history

=============================================================================
